---- MODULE Spec2Model ----
(***************************************************************************)
(* Model of the allstar-agent run orchestration and grading engine:        *)
(* the HTTP trigger surface (server.ts), runPipeline (pipeline.ts),        *)
(* gradeInBatches / gradeListing (grader.ts) and the persistence calls of  *)
(* db.ts that they make.                                                   *)
(*                                                                         *)
(* Every `await` of the code is a step boundary: an action is what runs    *)
(* between two awaits of one invocation, or one HTTP handler.              *)
(***************************************************************************)
EXTENDS Integers, Sequences, FiniteSets, TLC

\* ------------------------------------------------------------------ bounds
MaxListings == 3    \* listings handed to gradeInBatches in SpecGrade
MaxBatch == 3       \* opts.batchSize ranges over 1..MaxBatch
MaxConc == 2        \* opts.concurrency ranges over 1..MaxConc
MaxFaults == 2      \* failing persistence / scraper calls per behaviour
MaxTriggers == 2    \* POST /trigger requests per behaviour in Spec
MaxLinks == 2       \* distinct listing urls on the market in SpecRun
MaxUrls == 1        \* POST /grade-url requests per behaviour in SpecUrl
MaxCandidates == 2  \* listings passed to deduplicateListings in SpecDedup
MaxRationale == 2   \* characters of the rationale of a grading JSON in SpecParse
MaxEmits == 8       \* failing calls per behaviour in SpecEmit: every logEvent of a run

Null == 0

VARIABLES
    \* ---- server.ts module state
    isRunning,
    currentRunId,
    currentAbortController, \* the invocation owning the controller, or Null
    aborted,        \* controllers whose signal.aborted is true
    surfaced,       \* surfaced[p]: the error runPipeline threw to triggerRun's
                    \* caller, and the logError its catch block printed
    \* ---- config.ts
    batchSize,      \* GRADING_BATCH_SIZE / opts.batchSize
    concurrency,    \* GRADING_CONCURRENCY / opts.concurrency
    \* ---- one runPipeline / gradeInBatches invocation p
    pc,             \* pc[p]: where invocation p stands
    dryRun,         \* dryRun[p]: opts.dryRun
    promptVersion,  \* promptVersion[p]: criteria.version
    runId,          \* runId[p]: id returned by createRun
    allListings,    \* allListings[p]: the ScrapedListings collected so far
    errMsg,         \* errMsg[p]: errMessage of the catch block
    listings,       \* listings[p]: the listing ids handed to gradeInBatches
    i,              \* i[p]: outer loop offset (0-based, as in the code)
    j,              \* j[p]: inner loop offset within the batch
    chunk,          \* chunk[p]: positions (1-based, in listings[p]) of the window
    items,          \* items[p][x]: state of the async task of position x
    r,              \* r[p]: index of the next entry of `results` to tally
    graded,         \* graded[p]
    failed,         \* failed[p]
    totalScore,     \* totalScore[p]
    stats,          \* stats[p]: the GradeStats returned ([ret |-> FALSE] before)
    systemPrompt,   \* systemPrompt[p]: what the calls of buildSystemPrompt made
                    \* by gradeInBatches returned, in order; the first is
                    \* the const systemPrompt
    calls,          \* calls[p][x]: the instruction block and the per-item
                    \* block gradeListing was called with for position x
    \* ---- database
    runs,           \* table agent_runs: runs[id]
    events,         \* table agent_events: events[id], the logEvent calls of run id
    grades,         \* rows of table grades
    listingsDb,     \* rows of table listings; the url stands for the row id
    \* ---- environment and history
    faults,         \* failures the environment may still inject
    market,         \* market[source]: the ScrapedListings the source can return
    stopAt,         \* stopAt[p]: batches p had started when its signal was aborted
    answers,        \* what anthropic.messages.create can produce in this behaviour
    feedback,       \* table feedback: what getDisagreements and getAgreements
                    \* return
    \* ---- POST /grade-url
    gu,             \* gu[q]: the locals of request q and where its handler stands
    \* ---- deduplicateListings
    dedup,          \* the call of deduplicateListings: its argument, where it
                    \* stands and what it returned
    \* ---- gradeListing on the text of a response
    parsing         \* a grading JSON and what gradeListing made of it bare
                    \* and inside a code fence

serverVars == <<isRunning, currentRunId, currentAbortController, aborted, stopAt,
                surfaced>>
cfgVars == <<batchSize, concurrency, market, answers, feedback>>
pipeLocals == <<dryRun, promptVersion, runId, allListings, errMsg>>
loopVars == <<listings, i, j, chunk, r>>
tallyVars == <<graded, failed, totalScore, stats>>
promptVars == <<systemPrompt, calls>>
dbVars == <<runs, events, grades, listingsDb>>
\* what no step of a triggered run changes
restVars == <<cfgVars, gu, dedup, parsing>>

vars == <<serverVars, restVars, promptVars, pipeLocals, loopVars, tallyVars, dbVars, pc, items, faults>>

\* ------------------------------------------------------------ pure helpers

Min(a, b) == IF a < b THEN a ELSE b

\* batch = listings.slice(i, i + batchSize): number of elements
BatchLen(len, ii, bs) == Min(ii + bs, len) - Min(ii, len)

\* Variant of ChunkOf: the whole rest of the batch is dispatched at once.
ChunkOfWholeBatch(len, ii, jj, bs, conc) ==
    LET bl == BatchLen(len, ii, bs)
    IN  [k \in 1..(bl - Min(jj, bl)) |-> ii + jj + k]

\* Variant of ChunkOf: the windows are taken from the end of the list.
ChunkOfFromEnd(len, ii, jj, bs, conc) ==
    LET bl == BatchLen(len, ii, bs)
    IN  [k \in 1..(Min(jj + conc, bl) - Min(jj, bl)) |-> len + 1 - (ii + jj + k)]

\* chunk = batch.slice(j, j + concurrency), as positions in listings
ChunkOf(len, ii, jj, bs, conc) ==
    LET bl == BatchLen(len, ii, bs)
    IN  [k \in 1..(Min(jj + conc, bl) - Min(jj, bl)) |-> ii + jj + k]

\* Variant of MathRound: Math.floor
MathFloor(num, den) == num \div den

\* Math.round of the rational num/den (den > 0): floor(x + 0.5)
MathRound(num, den) == (2 * num + den) \div (2 * den)

\* averageScore: graded > 0 ? Math.round(totalScore / graded) : 0
AverageScore(total, n) == IF n > 0 THEN MathRound(total, n) ELSE 0

\* -------------------------------------------------- model output, parsing

CLAUDE_MODEL == "claude-sonnet-4-5-20250929"

\* What anthropic.messages.create can produce for one item.  kind "api_error"
\* is a rejected call, "no_text" a message without text block; a text is an
\* optional code fence around a body that is a JSON object or not JSON at all.
Out(kind, fence, body, scoreT, scoreV, gradeT, gradeV, ratT, flagsT) ==
    [kind |-> kind, fence |-> fence, body |-> body,
     scoreT |-> scoreT, scoreV |-> scoreV, gradeT |-> gradeT, gradeV |-> gradeV,
     ratT |-> ratT, flagsT |-> flagsT]

BasicOutputs ==
    { Out("api_error", "none", "garbage", "missing", 0, "missing", "", "missing", "missing"),
      Out("text", "none", "garbage", "missing", 0, "missing", "", "missing", "missing"),
      Out("text", "none", "object", "string", 0, "string", "B", "string", "array"),
      Out("text", "json", "object", "number", 1, "string", "F", "string", "missing"),
      Out("text", "plain", "object", "number", 104, "string", "A", "string", "array") }

\* Texts that parse to an object with one field missing or of another type:
\* score, grade, rationale, flags
MalformedOutputs ==
    { Out("text", "none", "object", "missing", 0, "string", "B", "string", "array"),
      Out("text", "none", "object", "number", 1, "number", "", "string", "array"),
      Out("text", "none", "object", "number", 1, "string", "B", "missing", "array"),
      Out("text", "none", "object", "number", 1, "string", "F", "string", "string") }

ModelOutputs == BasicOutputs \cup MalformedOutputs

\* No response: messages.create was not called
NoOutput ==
    Out("none", "none", "garbage", "missing", 0, "missing", "", "missing", "missing")

Ok(score, grade, flagsT) ==
    [ok |-> TRUE, score |-> score, grade |-> grade,
     flags |-> IF flagsT = "array" THEN "given" ELSE "empty", reason |-> ""]

Fail(reason) ==
    [ok |-> FALSE, score |-> 0, grade |-> "", flags |-> "empty", reason |-> reason]

\* Variant of gradeListing: of the parsed object only score is validated.
gradeListingChecksScoreOnly(raw, dry) ==
    IF dry THEN Ok(50, "C", "missing")
    ELSE IF raw.kind = "api_error" THEN Fail("API error")
    ELSE IF raw.kind = "no_text" THEN Fail("No text response from Claude")
    ELSE IF raw.body # "object" THEN Fail("SyntaxError")
    ELSE IF raw.scoreT # "number" THEN Fail("Invalid grade response structure")
    ELSE Ok(raw.scoreV, raw.gradeV, raw.flagsT)

\* Variant of gradeListing: the dryRun parameter is ignored.
gradeListingIgnoresDryRun(raw, dry) ==
    IF raw.kind \in {"api_error", "none"} THEN Fail("API error")
    ELSE IF raw.body # "object" THEN Fail("SyntaxError")
    ELSE IF raw.scoreT # "number" THEN Fail("Invalid grade response structure")
    ELSE Ok(raw.scoreV, raw.gradeV, raw.flagsT)

\* gradeListing: the GradeResult, or the error it throws
gradeListing(raw, dry) ==
    IF dry THEN Ok(50, "C", "missing")
    ELSE IF raw.kind = "api_error" THEN Fail("API error")
    ELSE IF raw.kind = "no_text" THEN Fail("No text response from Claude")
    ELSE IF raw.body # "object" THEN Fail("SyntaxError")
    ELSE IF \/ raw.scoreT # "number"
            \/ raw.gradeT # "string"
            \/ raw.ratT # "string"
         THEN Fail("Invalid grade response structure")
    ELSE Ok(raw.scoreV, raw.gradeV, raw.flagsT)

\* --------------------------------------------------------------- db.ts

\* One logEvent call.  `item` is the position (in listings) of the item the
\* call was made for (0 when none): the row itself carries listing_id only.
Event(type, listingId, item, info) ==
    [type |-> type, listing_id |-> listingId, item |-> item, info |-> info]

\* GradeRow as inserted by insertGrade; `run` is not a column, it records the
\* run whose engine made the insert
GradeRow(listingId, version, res, model, run) ==
    [listing_id |-> listingId, prompt_version |-> version, score |-> res.score,
     grade |-> res.grade, flags |-> res.flags, model |-> model, run |-> run]

\* A ScrapedListing as a source adapter builds it (link is Null when the
\* source gave no url), which is also the row upsertListings makes of it
Scraped(link, source, externalId) ==
    [url |-> link, source |-> source, external_id |-> externalId]

\* Table listings after upsertListings(batch): the listings without link
\* are dropped, and a row whose url is already stored is replaced
\* (onConflict: 'url', ignoreDuplicates: false)
Upserted(db, batch) ==
    LET rows == {l \in batch : l.url # Null}
    IN  {row \in db : \A l \in rows : l.url # row.url} \cup rows

\* ------------------------------------------------------- gradeInBatches

\* buildSystemPrompt: the instruction block, as the list of its parts.  The
\* rubric is followed by the disagreements and by the agreements, each under
\* its heading and only when there are any, and by the answer format.
buildSystemPrompt(criteria, disagreements, agreements) ==
    <<"You are an expert automotive parts grader", criteria>>
    \o (IF Len(disagreements) > 0
        THEN <<"--- LEARN FROM THESE PAST DISAGREEMENTS ---">> \o disagreements
        ELSE <<>>)
    \o (IF Len(agreements) > 0
        THEN <<"--- EXAMPLES OF WELL-GRADED LISTINGS ---">> \o agreements
        ELSE <<>>)
    \o <<"Respond with ONLY a JSON object">>

\* buildUserMessage: the per-item block; the listing id stands for the fields
\* of the listing (its URL among them)
buildUserMessage(listing) == <<"--- LISTING TO GRADE ---", listing>>

\* gradeListing has not been called for the position
NoCall == [systemPrompt |-> <<>>, userMessage |-> <<>>]

\* The feedback rows getDisagreements(20) and getAgreements(5) can return
NoFeedback == [disagreements |-> <<>>, agreements |-> <<>>]
Feedbacks == {NoFeedback, [disagreements |-> <<"d1">>, agreements |-> <<"a1">>]}

\* The task of one item.  `api` tells whether anthropic.messages.create has
\* been called for it, `raw` is what the call produced (the text an 'Invalid
\* grade response structure' error quotes).
Pending ==
    [st |-> "pending", score |-> 0, grade |-> "", flags |-> "empty", reason |-> "",
     api |-> FALSE, raw |-> NoOutput]

Rejected(reason) ==
    [st |-> "rejected", score |-> 0, grade |-> "", flags |-> "empty", reason |-> reason,
     api |-> FALSE, raw |-> NoOutput]

Settled(it) == it.st \in {"fulfilled", "rejected"}

\* logEvent(run, ...) is called once.  events[run] lists the calls; the insert
\* of a call may fail, which logEvent only prints.
LogEvent(run, type, listingId, item, info) ==
    /\ events' = [events EXCEPT ![run] = Append(@, Event(type, listingId, item, info))]
    /\ \/ UNCHANGED faults
       \/ faults > 0 /\ faults' = faults - 1

\* The for-loop heads: with i < listings.length the next window is dispatched.
\* chunk.map(async ...) runs every task up to its first await, so the
\* grade_started calls are issued in chunk order before anything else.
StartWindow(p) ==
    /\ pc[p] = "grade_loop"
    /\ i[p] < Len(listings[p])
    /\ LET c == ChunkOf(Len(listings[p]), i[p], j[p], batchSize, concurrency)
       IN  \E bad \in 0..Min(faults, Len(c)) :
             /\ faults' = faults - bad
             /\ chunk' = [chunk EXCEPT ![p] = c]
             /\ items' = [items EXCEPT ![p] =
                   [x \in DOMAIN items[p] |->
                      IF \E k \in 1..Len(c) : c[k] = x
                      THEN [items[p][x] EXCEPT !.st = "started"]
                      ELSE items[p][x]]]
             /\ events' = [events EXCEPT ![runId[p]] = @ \o
                   [k \in 1..Len(c) |->
                      Event("grade_started", listings[p][c[k]], c[k], "")]]
    /\ pc' = [pc EXCEPT ![p] = "window"]
    /\ UNCHANGED <<serverVars, restVars, promptVars, pipeLocals, listings, i, j, r, tallyVars,
                   runs, grades, listingsDb>>

\* Variant of ItemCallModel: the task of the item renders the instruction
\* block itself and calls gradeListing with what it rendered.
ItemCallModelBuildsPrompt(p, x) ==
    /\ pc[p] = "window"
    /\ items[p][x].st = "started"
    /\ items' = [items EXCEPT ![p][x].st = "model", ![p][x].api = ~dryRun[p]]
    /\ LET prompt == buildSystemPrompt(promptVersion[p], feedback.disagreements,
                                       feedback.agreements)
       IN  /\ systemPrompt' = [systemPrompt EXCEPT ![p] = Append(@, prompt)]
           /\ calls' = [calls EXCEPT ![p][x] =
                 [systemPrompt |-> prompt,
                  userMessage |-> buildUserMessage(listings[p][x])]]
    /\ UNCHANGED <<serverVars, restVars, pipeLocals, loopVars, tallyVars, dbVars, pc,
                   faults>>

\* await logEvent(grade_started) returns; gradeListing is called with the
\* const systemPrompt, and calls anthropic.messages.create with it (system)
\* and buildUserMessage(listing) (user) unless dryRun is set.
ItemCallModel(p, x) ==
    /\ pc[p] = "window"
    /\ items[p][x].st = "started"
    /\ items' = [items EXCEPT ![p][x].st = "model", ![p][x].api = ~dryRun[p]]
    /\ calls' = [calls EXCEPT ![p][x] =
          [systemPrompt |-> systemPrompt[p][1],
           userMessage |-> buildUserMessage(listings[p][x])]]
    /\ UNCHANGED <<serverVars, restVars, systemPrompt, pipeLocals, loopVars, tallyVars,
                   dbVars, pc, faults>>

\* gradeListing settles: it throws (the task rejects), or insertGrade is called.
ItemModelReturn(p, x) ==
    /\ pc[p] = "window"
    /\ items[p][x].st = "model"
    /\ \E raw \in IF items[p][x].api THEN answers ELSE {NoOutput} :
         LET res == gradeListing(raw, dryRun[p])
         IN  items' = [items EXCEPT ![p][x] =
                 IF res.ok
                 THEN [st |-> "insert", score |-> res.score, grade |-> res.grade,
                       flags |-> res.flags, reason |-> "", api |-> @.api,
                       raw |-> raw]
                 ELSE [Rejected(res.reason) EXCEPT !.api = items[p][x].api,
                                                   !.raw = raw]]
    /\ UNCHANGED <<serverVars, restVars, promptVars, pipeLocals, loopVars, tallyVars, dbVars, pc,
                   faults>>

\* Variant of ItemInsertReturn: insertGrade does not look at the error of the
\* insert, the task goes on without the row.
ItemInsertReturnIgnoresError(p, x) ==
    /\ pc[p] = "window"
    /\ items[p][x].st = "insert"
    /\ \/ /\ grades' = grades \cup
                {GradeRow(listings[p][x], promptVersion[p], items[p][x],
                          IF dryRun[p] THEN "dry-run" ELSE CLAUDE_MODEL, runId[p])}
          /\ UNCHANGED faults
       \/ /\ faults > 0
          /\ faults' = faults - 1
          /\ UNCHANGED grades
    /\ items' = [items EXCEPT ![p][x].st = "completing"]
    /\ events' = [events EXCEPT ![runId[p]] =
          Append(@, Event("grade_completed", listings[p][x], x, ""))]
    /\ UNCHANGED <<serverVars, restVars, promptVars, pipeLocals, loopVars, tallyVars, runs,
                   listingsDb, pc>>

\* Variant of ItemInsertReturn: a failing insert of the grade_completed event
\* is thrown by logEvent and rejects the task.
ItemInsertReturnEmitThrows(p, x) ==
    /\ pc[p] = "window"
    /\ items[p][x].st = "insert"
    /\ \/ /\ grades' = grades \cup
                {GradeRow(listings[p][x], promptVersion[p], items[p][x],
                          IF dryRun[p] THEN "dry-run" ELSE CLAUDE_MODEL, runId[p])}
          /\ events' = [events EXCEPT ![runId[p]] =
                Append(@, Event("grade_completed", listings[p][x], x, ""))]
          /\ \/ /\ UNCHANGED faults
                /\ items' = [items EXCEPT ![p][x].st = "completing"]
             \/ /\ faults > 0
                /\ faults' = faults - 1
                /\ items' = [items EXCEPT ![p][x] =
                      [Rejected("Failed to log event") EXCEPT
                          !.api = items[p][x].api, !.raw = items[p][x].raw]]
       \/ /\ faults > 0
          /\ faults' = faults - 1
          /\ items' = [items EXCEPT ![p][x] =
                [Rejected("Failed to insert grade") EXCEPT !.api = items[p][x].api,
                                                          !.raw = items[p][x].raw]]
          /\ UNCHANGED <<grades, events>>
    /\ UNCHANGED <<serverVars, restVars, promptVars, pipeLocals, loopVars, tallyVars, runs,
                   listingsDb, pc>>

\* insertGrade returns: the row is stored and grade_completed is logged, or
\* the insert failed and insertGrade throws.
ItemInsertReturn(p, x) ==
    /\ pc[p] = "window"
    /\ items[p][x].st = "insert"
    /\ \/ /\ grades' = grades \cup
                {GradeRow(listings[p][x], promptVersion[p], items[p][x],
                          IF dryRun[p] THEN "dry-run" ELSE CLAUDE_MODEL, runId[p])}
          /\ items' = [items EXCEPT ![p][x].st = "completing"]
          /\ LogEvent(runId[p], "grade_completed", listings[p][x], x, "")
       \/ /\ faults > 0
          /\ faults' = faults - 1
          /\ items' = [items EXCEPT ![p][x] =
                [Rejected("Failed to insert grade") EXCEPT !.api = items[p][x].api,
                                                          !.raw = items[p][x].raw]]
          /\ UNCHANGED <<grades, events>>
    /\ UNCHANGED <<serverVars, restVars, promptVars, pipeLocals, loopVars, tallyVars, runs,
                   listingsDb, pc>>

\* await logEvent(grade_completed) returns; the task fulfils with its result.
ItemFulfil(p, x) ==
    /\ pc[p] = "window"
    /\ items[p][x].st = "completing"
    /\ items' = [items EXCEPT ![p][x].st = "fulfilled"]
    /\ UNCHANGED <<serverVars, restVars, promptVars, pipeLocals, loopVars, tallyVars, dbVars, pc,
                   faults>>

\* Variant of AllSettled: Promise.all, which rejects with the first rejection.
AllSettledAsPromiseAll(p) ==
    /\ pc[p] = "window"
    /\ \/ /\ \A k \in 1..Len(chunk[p]) : items[p][chunk[p][k]].st = "fulfilled"
          /\ pc' = [pc EXCEPT ![p] = "tally"]
       \/ /\ \E k \in 1..Len(chunk[p]) : items[p][chunk[p][k]].st = "rejected"
          /\ pc' = [pc EXCEPT ![p] = "grade_threw"]
    /\ r' = [r EXCEPT ![p] = 1]
    /\ UNCHANGED <<serverVars, restVars, promptVars, pipeLocals, listings, i, j, chunk, tallyVars,
                   dbVars, items, faults>>

\* Promise.allSettled resolves once every task of the chunk has settled.
AllSettled(p) ==
    /\ pc[p] = "window"
    /\ \A k \in 1..Len(chunk[p]) : Settled(items[p][chunk[p][k]])
    /\ pc' = [pc EXCEPT ![p] = "tally"]
    /\ r' = [r EXCEPT ![p] = 1]
    /\ UNCHANGED <<serverVars, restVars, promptVars, pipeLocals, listings, i, j, chunk, tallyVars,
                   dbVars, items, faults>>

\* Variant of TallyResult: grade_failed is logged for every entry.
TallyResultLogsAll(p) ==
    /\ pc[p] = "tally"
    /\ r[p] <= Len(chunk[p])
    /\ LET it == items[p][chunk[p][r[p]]]
       IN  /\ \/ /\ it.st = "fulfilled"
                 /\ graded' = [graded EXCEPT ![p] = @ + 1]
                 /\ totalScore' = [totalScore EXCEPT ![p] = @ + it.score]
                 /\ UNCHANGED failed
              \/ /\ it.st = "rejected"
                 /\ failed' = [failed EXCEPT ![p] = @ + 1]
                 /\ UNCHANGED <<graded, totalScore>>
           /\ LogEvent(runId[p], "grade_failed", Null, chunk[p][r[p]], it.reason)
    /\ r' = [r EXCEPT ![p] = @ + 1]
    /\ UNCHANGED <<serverVars, restVars, promptVars, pipeLocals, listings, i, j, chunk, stats,
                   runs, grades, listingsDb, pc, items>>

\* for (const r of results): one entry of the settled window
TallyResult(p) ==
    /\ pc[p] = "tally"
    /\ r[p] <= Len(chunk[p])
    /\ LET it == items[p][chunk[p][r[p]]]
       IN  \/ /\ it.st = "fulfilled"
              /\ graded' = [graded EXCEPT ![p] = @ + 1]
              /\ totalScore' = [totalScore EXCEPT ![p] = @ + it.score]
              /\ UNCHANGED <<failed, events, faults>>
           \/ /\ it.st = "rejected"
              /\ failed' = [failed EXCEPT ![p] = @ + 1]
              /\ LogEvent(runId[p], "grade_failed", Null, chunk[p][r[p]], it.reason)
              /\ UNCHANGED <<graded, totalScore>>
    /\ r' = [r EXCEPT ![p] = @ + 1]
    /\ UNCHANGED <<serverVars, restVars, promptVars, pipeLocals, listings, i, j, chunk, stats,
                   runs, grades, listingsDb, pc, items>>

\* Variant of NextWindow: the inner loop steps by one (j++).
NextWindowStepsByOne(p) ==
    /\ pc[p] = "tally"
    /\ r[p] > Len(chunk[p])
    /\ IF j[p] + 1 < BatchLen(Len(listings[p]), i[p], batchSize)
       THEN /\ j' = [j EXCEPT ![p] = @ + 1]
            /\ UNCHANGED i
       ELSE /\ i' = [i EXCEPT ![p] = @ + batchSize]
            /\ j' = [j EXCEPT ![p] = 0]
    /\ pc' = [pc EXCEPT ![p] = "grade_loop"]
    /\ UNCHANGED <<serverVars, restVars, promptVars, pipeLocals, listings, chunk, r, tallyVars,
                   dbVars, items, faults>>

\* The loop increments: j += concurrency, and i += batchSize at the end of
\* the batch.
NextWindow(p) ==
    /\ pc[p] = "tally"
    /\ r[p] > Len(chunk[p])
    /\ IF j[p] + concurrency < BatchLen(Len(listings[p]), i[p], batchSize)
       THEN /\ j' = [j EXCEPT ![p] = @ + concurrency]
            /\ UNCHANGED i
       ELSE /\ i' = [i EXCEPT ![p] = @ + batchSize]
            /\ j' = [j EXCEPT ![p] = 0]
    /\ pc' = [pc EXCEPT ![p] = "grade_loop"]
    /\ UNCHANGED <<serverVars, restVars, promptVars, pipeLocals, listings, chunk, r, tallyVars,
                   dbVars, items, faults>>

\* return { graded, failed, averageScore }
GradeReturn(p) ==
    /\ pc[p] = "grade_loop"
    /\ i[p] >= Len(listings[p])
    /\ stats' = [stats EXCEPT ![p] =
          [ret |-> TRUE, graded |-> graded[p], failed |-> failed[p],
           averageScore |-> AverageScore(totalScore[p], graded[p])]]
    /\ pc' = [pc EXCEPT ![p] = "grade_returned"]
    /\ UNCHANGED <<serverVars, restVars, promptVars, pipeLocals, loopVars, graded, failed,
                   totalScore, dbVars, items, faults>>

\* ---------------------------------------------- the grading engine alone

\* An error: `kind` tells the error of the run from that of marking it failed
Err(kind, msg) == [kind |-> kind, msg |-> msg]

NoErrors == [thrown |-> {}, logError |-> {}]

\* gradeListing is not followed on a text
NoParsing ==
    [on |-> FALSE,
     json |-> [score |-> 0, grade |-> "", rationale |-> <<>>, flagsT |-> "missing"],
     result |-> <<>>]

\* deduplicateListings is not called
NoDedup ==
    [pc |-> "none", listings |-> <<>>, unique |-> <<>>, duplicatesSkipped |-> 0,
     warned |-> FALSE]

NoStats == [ret |-> FALSE, graded |-> 0, failed |-> 0, averageScore |-> 0]

\* A row of agent_runs as createRun inserts it.  `finished` stands for
\* finished_at being set; `terminal_writes` is not a column, it counts the
\* updates that wrote status completed or failed.
NewRun(version) ==
    [status |-> "running", prompt_version |-> version, listings_scraped |-> 0,
     listings_graded |-> 0, listings_failed |-> 0, has_average |-> FALSE,
     average_score |-> 0, error_message |-> "", finished |-> FALSE,
     terminal_writes |-> 0]

\* gradeInBatches called for run 1 with n listings (ids 1..n) and every
\* combination of batchSize, concurrency and dryRun.
InitGrade ==
    /\ isRunning = FALSE
    /\ currentRunId = Null
    /\ currentAbortController = Null
    /\ aborted = {}
    /\ stopAt = <<0>>
    /\ surfaced = <<NoErrors>>
    /\ market = [ebay |-> {}, craigslist |-> {}]
    /\ answers = ModelOutputs
    /\ feedback \in Feedbacks
    /\ gu = <<>>
    /\ dedup = NoDedup
    /\ parsing = NoParsing
    /\ batchSize \in 1..MaxBatch
    /\ concurrency \in 1..MaxConc
    /\ dryRun \in [{1} -> BOOLEAN]
    /\ promptVersion = <<"v1">>
    /\ runId = <<1>>
    /\ allListings = <<{}>>
    /\ errMsg = <<"">>
    /\ pc = <<"grade_loop">>
    /\ \E n \in 0..MaxListings :
         /\ listings = <<[x \in 1..n |-> x]>>
         /\ items = <<[x \in 1..n |-> Pending]>>
         /\ calls = <<[x \in 1..n |-> NoCall]>>
         /\ listingsDb = {Scraped(x, "ebay", x) : x \in 1..n}
    /\ i = <<0>>
    /\ j = <<0>>
    /\ chunk = << <<>> >>
    /\ r = <<1>>
    /\ graded = <<0>>
    /\ failed = <<0>>
    /\ totalScore = <<0>>
    /\ stats = <<NoStats>>
    /\ systemPrompt = << <<buildSystemPrompt("v1", feedback.disagreements,
                                              feedback.agreements)>> >>
    /\ runs = <<NewRun("v1")>>
    /\ events = << <<>> >>
    /\ grades = {}
    /\ faults \in 0..MaxFaults

NextGrade ==
    \E p \in DOMAIN pc :
       \/ StartWindow(p)
       \/ \E x \in DOMAIN items[p] : ItemCallModel(p, x)
       \/ \E x \in DOMAIN items[p] : ItemModelReturn(p, x)
       \/ \E x \in DOMAIN items[p] : ItemInsertReturn(p, x)
       \/ \E x \in DOMAIN items[p] : ItemFulfil(p, x)
       \/ AllSettled(p)
       \/ TallyResult(p)
       \/ NextWindow(p)
       \/ GradeReturn(p)

SpecGrade == InitGrade /\ [][NextGrade]_vars

\* ------------------------------------------------------------ server.ts

Procs == DOMAIN pc

\* p is between the arrival of its request and the end of triggerRun
Active(p) == pc[p] \notin {"idle", "rejected", "done", "raised"}

\* runPipeline has been called for p and has neither returned nor thrown
RunInProgress(p) == Active(p) /\ pc[p] # "body"

\* Batches of gradeInBatches that p has started so far
BatchesStarted(p) ==
    IF pc[p] \in {"window", "tally"} THEN (i[p] \div batchSize) + 1
    ELSE i[p] \div batchSize

\* POST /trigger, up to `readBody(req).then(...)`: 401 (which leaves no
\* trace), 409, or the body is awaited.  Requests that pass authenticate are
\* numbered in the order of their arrival.
TriggerArrive(p) ==
    /\ pc[p] = "idle"
    /\ \A q \in Procs : q < p => pc[q] # "idle"
    /\ \/ UNCHANGED <<pc, dryRun>>
       \/ /\ isRunning
          /\ pc' = [pc EXCEPT ![p] = "rejected"]
          /\ UNCHANGED dryRun
       \/ /\ ~isRunning
          /\ pc' = [pc EXCEPT ![p] = "body"]
          /\ \E dry \in BOOLEAN : dryRun' = [dryRun EXCEPT ![p] = dry]
    /\ UNCHANGED <<serverVars, restVars, promptVars, promptVersion, runId, allListings, errMsg,
                   loopVars, tallyVars, dbVars, items, faults>>

\* The body has been read: 202 is sent and triggerRun runs up to the first
\* await of runPipeline (getActiveCriteria).
TriggerBody(p) ==
    /\ pc[p] = "body"
    /\ isRunning' = TRUE
    /\ currentRunId' = Null
    /\ currentAbortController' = p
    /\ pc' = [pc EXCEPT ![p] = "criteria"]
    /\ UNCHANGED <<aborted, stopAt, surfaced, restVars, promptVars, pipeLocals, loopVars,
                   tallyVars, dbVars, items, faults>>

\* Variant of Stop: the 409 branch clears currentRunId.
StopWithoutRunClearsRunId ==
    /\ \/ UNCHANGED <<aborted, stopAt, currentRunId>>
       \/ /\ ~isRunning \/ currentAbortController = Null
          /\ currentRunId' = Null
          /\ UNCHANGED <<aborted, stopAt>>
       \/ /\ isRunning /\ currentAbortController # Null
          /\ aborted' = aborted \cup {currentAbortController}
          /\ stopAt' = IF currentAbortController \in aborted THEN stopAt
                       ELSE [stopAt EXCEPT ![currentAbortController] =
                                BatchesStarted(currentAbortController)]
          /\ UNCHANGED currentRunId
    /\ UNCHANGED <<isRunning, currentAbortController, surfaced, restVars, promptVars,
                   pipeLocals, loopVars, tallyVars, dbVars, pc, items, faults>>

\* POST /stop: 401 or 409, which change nothing, or the signal of the
\* current controller is aborted (200)
Stop ==
    /\ \/ UNCHANGED <<aborted, stopAt>>
       \/ /\ ~isRunning \/ currentAbortController = Null
          /\ UNCHANGED <<aborted, stopAt>>
       \/ /\ isRunning /\ currentAbortController # Null
          /\ aborted' = aborted \cup {currentAbortController}
          /\ stopAt' = IF currentAbortController \in aborted THEN stopAt
                       ELSE [stopAt EXCEPT ![currentAbortController] =
                                BatchesStarted(currentAbortController)]
    /\ UNCHANGED <<isRunning, currentRunId, currentAbortController, surfaced,
                   restVars, promptVars, pipeLocals, loopVars, tallyVars, dbVars, pc, items,
                   faults>>

\* The error runPipeline throws from where p stands: that of getActiveCriteria
\* or createRun, which are called outside the try block, or the `error` of
\* the catch block, which is thrown again
Thrown(p) ==
    IF pc[p] = "criteria" THEN Err("fatal", "Failed to fetch active grading criteria")
    ELSE IF pc[p] = "create" THEN Err("fatal", "Failed to create run")
    ELSE Err("fatal", errMsg[p])

\* What the inner catch of the catch block prints before `throw error`: the
\* error of the updateRun(failed) that has just failed
LogError(p) ==
    IF pc[p] = "mark_failed" THEN {Err("marking", "Failed to update run")} ELSE {}

\* Variant of Finish: the inner catch is empty, the logError is not printed.
FinishDropsLogError(p, how) ==
    /\ currentRunId' = IF how = "done" THEN runId[p] ELSE currentRunId
    /\ isRunning' = FALSE
    /\ currentAbortController' = Null
    /\ pc' = [pc EXCEPT ![p] = how]
    /\ aborted' = aborted \ {p}
    /\ stopAt' = [stopAt EXCEPT ![p] = 0]
    /\ surfaced' = [surfaced EXCEPT ![p] =
          IF how = "raised" THEN [thrown |-> {Thrown(p)}, logError |-> {}]
          ELSE NoErrors]
    /\ dryRun' = [dryRun EXCEPT ![p] = FALSE]
    /\ promptVersion' = [promptVersion EXCEPT ![p] = ""]
    /\ runId' = [runId EXCEPT ![p] = Null]
    /\ allListings' = [allListings EXCEPT ![p] = {}]
    /\ errMsg' = [errMsg EXCEPT ![p] = ""]
    /\ listings' = [listings EXCEPT ![p] = <<>>]
    /\ items' = [items EXCEPT ![p] = <<>>]
    /\ i' = [i EXCEPT ![p] = 0]
    /\ j' = [j EXCEPT ![p] = 0]
    /\ chunk' = [chunk EXCEPT ![p] = <<>>]
    /\ r' = [r EXCEPT ![p] = 1]
    /\ graded' = [graded EXCEPT ![p] = 0]
    /\ failed' = [failed EXCEPT ![p] = 0]
    /\ totalScore' = [totalScore EXCEPT ![p] = 0]
    /\ stats' = [stats EXCEPT ![p] = NoStats]
    /\ systemPrompt' = [systemPrompt EXCEPT ![p] = <<>>]
    /\ calls' = [calls EXCEPT ![p] = <<>>]
    /\ UNCHANGED restVars

\* Variant of Finish: the slot is released after `currentRunId = runId` and
\* not in a finally block, so that a thrown error leaves it taken.
FinishWithoutFinally(p, how) ==
    /\ currentRunId' = IF how = "done" THEN runId[p] ELSE currentRunId
    /\ isRunning' = IF how = "done" THEN FALSE ELSE isRunning
    /\ currentAbortController' = IF how = "done" THEN Null ELSE currentAbortController
    /\ pc' = [pc EXCEPT ![p] = how]
    /\ aborted' = aborted \ {p}
    /\ stopAt' = [stopAt EXCEPT ![p] = 0]
    /\ surfaced' = [surfaced EXCEPT ![p] =
          IF how = "raised" THEN [thrown |-> {Thrown(p)}, logError |-> LogError(p)]
          ELSE NoErrors]
    /\ dryRun' = [dryRun EXCEPT ![p] = FALSE]
    /\ promptVersion' = [promptVersion EXCEPT ![p] = ""]
    /\ runId' = [runId EXCEPT ![p] = Null]
    /\ allListings' = [allListings EXCEPT ![p] = {}]
    /\ errMsg' = [errMsg EXCEPT ![p] = ""]
    /\ listings' = [listings EXCEPT ![p] = <<>>]
    /\ items' = [items EXCEPT ![p] = <<>>]
    /\ i' = [i EXCEPT ![p] = 0]
    /\ j' = [j EXCEPT ![p] = 0]
    /\ chunk' = [chunk EXCEPT ![p] = <<>>]
    /\ r' = [r EXCEPT ![p] = 1]
    /\ graded' = [graded EXCEPT ![p] = 0]
    /\ failed' = [failed EXCEPT ![p] = 0]
    /\ totalScore' = [totalScore EXCEPT ![p] = 0]
    /\ stats' = [stats EXCEPT ![p] = NoStats]
    /\ systemPrompt' = [systemPrompt EXCEPT ![p] = <<>>]
    /\ calls' = [calls EXCEPT ![p] = <<>>]
    /\ UNCHANGED restVars

\* The end of triggerRun: `currentRunId = runId` when runPipeline returned,
\* and the finally block either way.  The locals of the invocation are gone;
\* a thrown error goes to the caller (after the inner catch has printed the
\* error of a failed updateRun(failed)).
Finish(p, how) ==
    /\ currentRunId' = IF how = "done" THEN runId[p] ELSE currentRunId
    /\ isRunning' = FALSE
    /\ currentAbortController' = Null
    /\ pc' = [pc EXCEPT ![p] = how]
    /\ aborted' = aborted \ {p}
    /\ stopAt' = [stopAt EXCEPT ![p] = 0]
    /\ surfaced' = [surfaced EXCEPT ![p] =
          IF how = "raised" THEN [thrown |-> {Thrown(p)}, logError |-> LogError(p)]
          ELSE NoErrors]
    /\ dryRun' = [dryRun EXCEPT ![p] = FALSE]
    /\ promptVersion' = [promptVersion EXCEPT ![p] = ""]
    /\ runId' = [runId EXCEPT ![p] = Null]
    /\ allListings' = [allListings EXCEPT ![p] = {}]
    /\ errMsg' = [errMsg EXCEPT ![p] = ""]
    /\ listings' = [listings EXCEPT ![p] = <<>>]
    /\ items' = [items EXCEPT ![p] = <<>>]
    /\ i' = [i EXCEPT ![p] = 0]
    /\ j' = [j EXCEPT ![p] = 0]
    /\ chunk' = [chunk EXCEPT ![p] = <<>>]
    /\ r' = [r EXCEPT ![p] = 1]
    /\ graded' = [graded EXCEPT ![p] = 0]
    /\ failed' = [failed EXCEPT ![p] = 0]
    /\ totalScore' = [totalScore EXCEPT ![p] = 0]
    /\ stats' = [stats EXCEPT ![p] = NoStats]
    /\ systemPrompt' = [systemPrompt EXCEPT ![p] = <<>>]
    /\ calls' = [calls EXCEPT ![p] = <<>>]
    /\ UNCHANGED restVars

\* ---------------------------------------------------------- pipeline.ts

\* A call of a collaborator fails: one failure of the budget is used.
Fault == faults > 0 /\ faults' = faults - 1

\* Variant of Catch: the error is noted and the pipeline goes on to store.
CatchAndContinue(p, msg) ==
    /\ errMsg' = [errMsg EXCEPT ![p] = msg]
    /\ pc' = [pc EXCEPT ![p] = "upsert"]

\* The catch block of runPipeline up to its first await: updateRun(failed)
Catch(p, msg) ==
    /\ errMsg' = [errMsg EXCEPT ![p] = msg]
    /\ pc' = [pc EXCEPT ![p] = "mark_failed"]

RECURSIVE SortedSeq(_)
\* The elements of a finite set of numbers in ascending order
SortedSeq(S) ==
    IF S = {} THEN <<>>
    ELSE LET m == CHOOSE x \in S : \A y \in S : x <= y
         IN  <<m>> \o SortedSeq(S \ {m})

\* Variant of Ungraded: the grade rows of dry runs do not count.
UngradedButForDryRun(version) ==
    SortedSeq({row.url : row \in
                 {l \in listingsDb :
                    ~\E g \in grades : /\ g.listing_id = l.url
                                       /\ g.prompt_version = version
                                       /\ g.model # "dry-run"}})

\* get_ungraded_listings / getUngradedListingsFallback: the listings with no
\* grade row for the prompt version
Ungraded(version) ==
    SortedSeq({row.url : row \in
                 {l \in listingsDb :
                    ~\E g \in grades : /\ g.listing_id = l.url
                                       /\ g.prompt_version = version}})

\* Step 1: getActiveCriteria returns (createRun is called) or throws
GetCriteria(p) ==
    /\ pc[p] = "criteria"
    /\ \/ /\ promptVersion' = [promptVersion EXCEPT ![p] = "v1"]
          /\ pc' = [pc EXCEPT ![p] = "create"]
          /\ UNCHANGED <<serverVars, restVars, promptVars, dryRun, runId, allListings, errMsg,
                         loopVars, tallyVars, dbVars, items, faults>>
       \/ /\ Fault
          /\ Finish(p, "raised")
          /\ UNCHANGED dbVars

\* Variant of CreateRun: createRun is called inside the try block, so that its
\* error is handled by the catch block.
CreateRunInsideTry(p) ==
    /\ pc[p] = "create"
    /\ \/ /\ runs' = Append(runs, NewRun(promptVersion[p]))
          /\ runId' = [runId EXCEPT ![p] = Len(runs) + 1]
          /\ events' = Append(events, <<Event("scrape_started", Null, 0, "ebay")>>)
          /\ \/ UNCHANGED faults
             \/ faults > 0 /\ faults' = faults - 1
          /\ pc' = [pc EXCEPT ![p] = "ev_scrape_started_ebay"]
          /\ UNCHANGED errMsg
       \/ /\ Fault
          /\ Catch(p, "Failed to create run")
          /\ UNCHANGED <<runs, runId, events>>
    /\ UNCHANGED <<serverVars, restVars, promptVars, dryRun, promptVersion, allListings,
                   loopVars, tallyVars, grades, listingsDb, items>>

\* Step 2: createRun returns the id of the new row and scrape_started is
\* logged, or createRun throws (outside the try block)
CreateRun(p) ==
    /\ pc[p] = "create"
    /\ \/ /\ runs' = Append(runs, NewRun(promptVersion[p]))
          /\ runId' = [runId EXCEPT ![p] = Len(runs) + 1]
          /\ events' = Append(events, <<Event("scrape_started", Null, 0, "ebay")>>)
          /\ \/ UNCHANGED faults
             \/ faults > 0 /\ faults' = faults - 1
          /\ pc' = [pc EXCEPT ![p] = "ev_scrape_started_ebay"]
          /\ UNCHANGED <<serverVars, restVars, promptVars, dryRun, promptVersion, allListings,
                         errMsg, loopVars, tallyVars, grades, listingsDb, items>>
       \/ /\ Fault
          /\ Finish(p, "raised")
          /\ UNCHANGED dbVars

\* A step of runPipeline that only goes from one await to the next call
Advance(p, from, to) ==
    /\ pc[p] = from
    /\ pc' = [pc EXCEPT ![p] = to]
    /\ UNCHANGED <<serverVars, restVars, promptVars, pipeLocals, loopVars, tallyVars, dbVars,
                   items, faults>>

\* Step 3: logEvent returned, searchEbay is called
CallSearchEbay(p) == Advance(p, "ev_scrape_started_ebay", "search_ebay")

\* searchEbay returns its items (scrape_completed is logged) or throws
SearchEbayReturn(p) ==
    /\ pc[p] = "search_ebay"
    /\ \/ /\ \E got \in SUBSET market.ebay :
               /\ allListings' = [allListings EXCEPT ![p] = got]
               /\ LogEvent(runId[p], "scrape_completed", Null, 0, "ebay")
          /\ pc' = [pc EXCEPT ![p] = "ev_scrape_completed_ebay"]
          /\ UNCHANGED errMsg
       \/ /\ Fault
          /\ Catch(p, "searchEbay failed")
          /\ UNCHANGED <<allListings, events>>
    /\ UNCHANGED <<serverVars, restVars, promptVars, dryRun, promptVersion, runId, loopVars,
                   tallyVars, runs, grades, listingsDb, items>>

\* Step 4: CRAIGSLIST_ENABLED is true: scrape_started is logged
LogCraigslistStarted(p) ==
    /\ pc[p] = "ev_scrape_completed_ebay"
    /\ LogEvent(runId[p], "scrape_started", Null, 0, "craigslist")
    /\ pc' = [pc EXCEPT ![p] = "ev_scrape_started_cl"]
    /\ UNCHANGED <<serverVars, restVars, promptVars, pipeLocals, loopVars, tallyVars, runs,
                   grades, listingsDb, items>>

CallSearchCraigslist(p) == Advance(p, "ev_scrape_started_cl", "search_cl")

\* searchCraigslist returns its items (scrape_completed is logged) or throws
SearchCraigslistReturn(p) ==
    /\ pc[p] = "search_cl"
    /\ \/ /\ \E got \in SUBSET market.craigslist :
               /\ allListings' = [allListings EXCEPT ![p] = @ \cup got]
               /\ LogEvent(runId[p], "scrape_completed", Null, 0, "craigslist")
          /\ pc' = [pc EXCEPT ![p] = "ev_scrape_completed_cl"]
          /\ UNCHANGED errMsg
       \/ /\ Fault
          /\ Catch(p, "searchCraigslist failed")
          /\ UNCHANGED <<allListings, events>>
    /\ UNCHANGED <<serverVars, restVars, promptVars, dryRun, promptVersion, runId, loopVars,
                   tallyVars, runs, grades, listingsDb, items>>

\* Variant of CallUpsert: the ungraded listings are selected before the
\* scraped ones are stored.
CallSelectBeforeUpsert(p) == Advance(p, "ev_scrape_completed_cl", "select")

\* Step 5: upsertListings is called
CallUpsert(p) == Advance(p, "ev_scrape_completed_cl", "upsert")

\* upsertListings returns (listings_stored is logged) or throws; with no
\* listing it returns [] without a query, so it cannot fail
UpsertReturn(p) ==
    /\ pc[p] = "upsert"
    /\ \/ /\ listingsDb' = Upserted(listingsDb, allListings[p])
          /\ LogEvent(runId[p], "listings_stored", Null, 0, "")
          /\ pc' = [pc EXCEPT ![p] = "ev_listings_stored"]
          /\ UNCHANGED errMsg
       \/ /\ allListings[p] # {}
          /\ Fault
          /\ Catch(p, "Failed to upsert listings")
          /\ UNCHANGED <<listingsDb, events>>
    /\ UNCHANGED <<serverVars, restVars, promptVars, dryRun, promptVersion, runId, allListings,
                   loopVars, tallyVars, runs, grades, items>>

\* updateRun(runId, { listings_scraped }) is called
CallUpdateScraped(p) == Advance(p, "ev_listings_stored", "update_scraped")

\* Variant of UpdateScrapedReturn: the error of updateRun is noted and the
\* pipeline goes on to the selection.
UpdateScrapedReturnIgnoresError(p) ==
    /\ pc[p] = "update_scraped"
    /\ \/ /\ runs' = [runs EXCEPT ![runId[p]].listings_scraped =
                         Cardinality(allListings[p])]
          /\ UNCHANGED <<errMsg, faults>>
       \/ /\ Fault
          /\ errMsg' = [errMsg EXCEPT ![p] = "Failed to update run"]
          /\ UNCHANGED runs
    /\ pc' = [pc EXCEPT ![p] = "select"]
    /\ UNCHANGED <<serverVars, restVars, promptVars, dryRun, promptVersion, runId, allListings,
                   loopVars, tallyVars, events, grades, listingsDb, items>>

\* updateRun returns (getUngradedListings is called) or throws
UpdateScrapedReturn(p) ==
    /\ pc[p] = "update_scraped"
    /\ \/ /\ runs' = [runs EXCEPT ![runId[p]].listings_scraped =
                         Cardinality(allListings[p])]
          /\ pc' = [pc EXCEPT ![p] = "select"]
          /\ UNCHANGED <<errMsg, faults>>
       \/ /\ Fault
          /\ Catch(p, "Failed to update run")
          /\ UNCHANGED runs
    /\ UNCHANGED <<serverVars, restVars, promptVars, dryRun, promptVersion, runId, allListings,
                   loopVars, tallyVars, events, grades, listingsDb, items>>

\* Variant of Selected: the feedback is loaded whatever the selection.
SelectedAlwaysGrades(p, ungraded) ==
    /\ listings' = [listings EXCEPT ![p] = ungraded]
    /\ pc' = [pc EXCEPT ![p] = "disagreements"]

\* Step 6 continues with the ungraded listings: with none the run is
\* finalized at once, otherwise the feedback is loaded (step 7)
Selected(p, ungraded) ==
    /\ listings' = [listings EXCEPT ![p] = ungraded]
    /\ pc' = [pc EXCEPT ![p] = IF Len(ungraded) = 0 THEN "finalize_empty"
                                ELSE "disagreements"]

\* The rpc get_ungraded_listings returns, or fails and the fallback is used
SelectReturn(p) ==
    /\ pc[p] = "select"
    /\ \/ Selected(p, Ungraded(promptVersion[p]))
       \/ /\ pc' = [pc EXCEPT ![p] = "select_fallback"]
          /\ UNCHANGED listings
    /\ UNCHANGED <<serverVars, restVars, promptVars, pipeLocals, i, j, chunk, r, tallyVars,
                   dbVars, items, faults>>

\* getUngradedListingsFallback returns or throws
SelectFallbackReturn(p) ==
    /\ pc[p] = "select_fallback"
    /\ \/ /\ Selected(p, Ungraded(promptVersion[p]))
          /\ UNCHANGED <<errMsg, faults>>
       \/ /\ Fault
          /\ Catch(p, "Failed to fetch graded listings")
          /\ UNCHANGED listings
    /\ UNCHANGED <<serverVars, restVars, promptVars, dryRun, promptVersion, runId, allListings,
                   i, j, chunk, r, tallyVars, dbVars, items>>

\* Step 7: getDisagreements returned (it never throws); getAgreements is called
LoadAgreements(p) == Advance(p, "disagreements", "agreements")

\* Step 8: getAgreements returned; gradeInBatches is called, which renders
\* the instruction block before its loops
CallGradeInBatches(p) ==
    /\ pc[p] = "agreements"
    /\ items' = [items EXCEPT ![p] = [x \in 1..Len(listings[p]) |-> Pending]]
    /\ systemPrompt' = [systemPrompt EXCEPT ![p] =
          <<buildSystemPrompt(promptVersion[p], feedback.disagreements,
                              feedback.agreements)>>]
    /\ calls' = [calls EXCEPT ![p] = [x \in 1..Len(listings[p]) |-> NoCall]]
    /\ i' = [i EXCEPT ![p] = 0]
    /\ j' = [j EXCEPT ![p] = 0]
    /\ graded' = [graded EXCEPT ![p] = 0]
    /\ failed' = [failed EXCEPT ![p] = 0]
    /\ totalScore' = [totalScore EXCEPT ![p] = 0]
    /\ pc' = [pc EXCEPT ![p] = "grade_loop"]
    /\ UNCHANGED <<serverVars, restVars, pipeLocals, listings, chunk, r, stats,
                   dbVars, faults>>

\* Variant of FinalizeReturn: a run with failed items is finalized as failed.
FinalizeReturnFailsOnFailedItems(p) ==
    /\ pc[p] \in {"grade_returned", "finalize_empty"}
    /\ \/ /\ runs' = [runs EXCEPT ![runId[p]] =
                [@ EXCEPT !.status = IF stats[p].failed > 0 THEN "failed"
                                     ELSE "completed",
                          !.finished = TRUE, !.terminal_writes = @ + 1,
                          !.listings_graded = stats[p].graded,
                          !.listings_failed = stats[p].failed,
                          !.has_average = (pc[p] = "grade_returned"),
                          !.average_score = stats[p].averageScore]]
          /\ LogEvent(runId[p], "run_completed", Null, 0, "")
          /\ pc' = [pc EXCEPT ![p] = "ev_run_completed"]
          /\ UNCHANGED errMsg
       \/ /\ Fault
          /\ Catch(p, "Failed to update run")
          /\ UNCHANGED <<runs, events>>
    /\ UNCHANGED <<serverVars, restVars, promptVars, dryRun, promptVersion, runId, allListings,
                   loopVars, tallyVars, grades, listingsDb, items>>

\* Variant of FinalizeReturn: an error of the finalizing updateRun is
\* swallowed, the run goes on as if it had been written.
FinalizeReturnSwallowsError(p) ==
    /\ pc[p] \in {"grade_returned", "finalize_empty"}
    /\ \/ /\ runs' = [runs EXCEPT ![runId[p]] =
                [@ EXCEPT !.status = "completed", !.finished = TRUE,
                          !.terminal_writes = @ + 1,
                          !.listings_graded = stats[p].graded,
                          !.listings_failed = stats[p].failed,
                          !.has_average = (pc[p] = "grade_returned"),
                          !.average_score = stats[p].averageScore]]
          /\ LogEvent(runId[p], "run_completed", Null, 0, "")
       \/ /\ Fault
          /\ UNCHANGED <<runs, events>>
    /\ pc' = [pc EXCEPT ![p] = "ev_run_completed"]
    /\ UNCHANGED <<serverVars, restVars, promptVars, pipeLocals, loopVars, tallyVars, grades,
                   listingsDb, items>>

\* The finalizing updateRun returns (run_completed is logged) or throws:
\* step 9 after gradeInBatches, or the branch of no ungraded listing
FinalizeReturn(p) ==
    /\ pc[p] \in {"grade_returned", "finalize_empty"}
    /\ \/ /\ runs' = [runs EXCEPT ![runId[p]] =
                [@ EXCEPT !.status = "completed", !.finished = TRUE,
                          !.terminal_writes = @ + 1,
                          !.listings_graded = stats[p].graded,
                          !.listings_failed = stats[p].failed,
                          !.has_average = (pc[p] = "grade_returned"),
                          !.average_score = stats[p].averageScore]]
          /\ LogEvent(runId[p], "run_completed", Null, 0, "")
          /\ pc' = [pc EXCEPT ![p] = "ev_run_completed"]
          /\ UNCHANGED errMsg
       \/ /\ Fault
          /\ Catch(p, "Failed to update run")
          /\ UNCHANGED <<runs, events>>
    /\ UNCHANGED <<serverVars, restVars, promptVars, dryRun, promptVersion, runId, allListings,
                   loopVars, tallyVars, grades, listingsDb, items>>

\* return runId
RunReturn(p) ==
    /\ pc[p] = "ev_run_completed"
    /\ Finish(p, "done")
    /\ UNCHANGED <<dbVars, faults>>

\* updateRun(failed) of the catch block returns (run_failed is logged), or
\* throws, which the inner catch only prints; the error is thrown again
MarkFailedReturn(p) ==
    /\ pc[p] = "mark_failed"
    /\ \/ /\ runs' = [runs EXCEPT ![runId[p]] =
                [@ EXCEPT !.status = "failed", !.finished = TRUE,
                          !.terminal_writes = @ + 1,
                          !.error_message = errMsg[p]]]
          /\ LogEvent(runId[p], "run_failed", Null, 0, errMsg[p])
          /\ pc' = [pc EXCEPT ![p] = "ev_run_failed"]
          /\ UNCHANGED <<serverVars, restVars, promptVars, pipeLocals, loopVars, tallyVars,
                         grades, listingsDb, items>>
       \/ /\ Fault
          /\ Finish(p, "raised")
          /\ UNCHANGED dbVars

\* throw error
RunRaise(p) ==
    /\ pc[p] = "ev_run_failed"
    /\ Finish(p, "raised")
    /\ UNCHANGED <<dbVars, faults>>

\* ------------------------------------------------------ the whole agent

\* The server after startServer, with N POST /trigger requests to come (each
\* at `first`), or one request whose body is being read.
InitServer(N, first, dry, bs, conc, mkt, maxFaults) ==
    /\ isRunning = FALSE
    /\ currentRunId = Null
    /\ currentAbortController = Null
    /\ aborted = {}
    /\ stopAt = [p \in 1..N |-> 0]
    /\ surfaced = [p \in 1..N |-> NoErrors]
    /\ batchSize = bs
    /\ concurrency = conc
    /\ market = mkt
    /\ dryRun \in [1..N -> dry]
    /\ promptVersion = [p \in 1..N |-> ""]
    /\ runId = [p \in 1..N |-> Null]
    /\ allListings = [p \in 1..N |-> {}]
    /\ errMsg = [p \in 1..N |-> ""]
    /\ pc = [p \in 1..N |-> first]
    /\ listings = [p \in 1..N |-> <<>>]
    /\ items = [p \in 1..N |-> <<>>]
    /\ i = [p \in 1..N |-> 0]
    /\ j = [p \in 1..N |-> 0]
    /\ chunk = [p \in 1..N |-> <<>>]
    /\ r = [p \in 1..N |-> 1]
    /\ graded = [p \in 1..N |-> 0]
    /\ failed = [p \in 1..N |-> 0]
    /\ totalScore = [p \in 1..N |-> 0]
    /\ stats = [p \in 1..N |-> NoStats]
    /\ systemPrompt = [p \in 1..N |-> <<>>]
    /\ calls = [p \in 1..N |-> <<>>]
    /\ runs = <<>>
    /\ events = <<>>
    /\ grades = {}
    /\ listingsDb = {}
    /\ faults \in 0..maxFaults

\* What eBay can return with links 1..n: an item per odd link, and under
\* each even link the item of the link before it once more (same itemId)
EbayItems(n) ==
    {Scraped(l, "ebay", l) : l \in {k \in 1..n : k % 2 = 1}} \cup
    {Scraped(l, "ebay", l - 1) : l \in {k \in 1..n : k % 2 = 0}}

\* What Craigslist can return with links 1..n: a posting per even link
CraigslistItems(n) ==
    {Scraped(l, "craigslist", l) : l \in {k \in 1..n : k % 2 = 0}}

\* The markets of n listings with n distinct links (a search returns any
\* part of what its source holds)
Markets(n) ==
    {m \in {[ebay |-> e, craigslist |-> c] :
               e \in SUBSET EbayItems(n), c \in SUBSET CraigslistItems(n)} :
        /\ Cardinality(m.ebay \cup m.craigslist) = n
        /\ Cardinality({l.url : l \in m.ebay \cup m.craigslist}) = n}

\* The server and MaxTriggers requests, on a market of one listing and a
\* model that answers with one of BasicOutputs
Init ==
    /\ InitServer(MaxTriggers, "idle", {FALSE}, 1, 1,
                  [ebay |-> {Scraped(1, "ebay", 1)}, craigslist |-> {}], 1)
    /\ answers = BasicOutputs
    /\ feedback = NoFeedback
    /\ gu = <<>>
    /\ dedup = NoDedup
    /\ parsing = NoParsing

\* One accepted POST /trigger (dry run or not) whose body is being read, on
\* every market of up to MaxLinks listings
InitRun ==
    /\ \E bs \in 1..MaxBatch, conc \in 1..MaxConc, mkt \in Markets(MaxLinks) :
          InitServer(1, "body", BOOLEAN, bs, conc, mkt, MaxFaults)
    /\ answers = ModelOutputs
    /\ feedback \in Feedbacks
    /\ gu = <<>>
    /\ dedup = NoDedup
    /\ parsing = NoParsing

Next ==
    \/ Stop
    \/ \E p \in Procs :
          \/ TriggerArrive(p)
          \/ TriggerBody(p)
          \/ GetCriteria(p)
          \/ CreateRun(p)
          \/ CallSearchEbay(p)
          \/ SearchEbayReturn(p)
          \/ LogCraigslistStarted(p)
          \/ CallSearchCraigslist(p)
          \/ SearchCraigslistReturn(p)
          \/ CallUpsert(p)
          \/ UpsertReturn(p)
          \/ CallUpdateScraped(p)
          \/ UpdateScrapedReturn(p)
          \/ SelectReturn(p)
          \/ SelectFallbackReturn(p)
          \/ LoadAgreements(p)
          \/ CallGradeInBatches(p)
          \/ FinalizeReturn(p)
          \/ RunReturn(p)
          \/ MarkFailedReturn(p)
          \/ RunRaise(p)
    \/ NextGrade

Spec == Init /\ [][Next]_vars

\* One run from the accepted request to the end of triggerRun
NextRun ==
    \/ Stop
    \/ \E p \in Procs :
          \/ TriggerBody(p)
          \/ GetCriteria(p)
          \/ CreateRun(p)
          \/ CallSearchEbay(p)
          \/ SearchEbayReturn(p)
          \/ LogCraigslistStarted(p)
          \/ CallSearchCraigslist(p)
          \/ SearchCraigslistReturn(p)
          \/ CallUpsert(p)
          \/ UpsertReturn(p)
          \/ CallUpdateScraped(p)
          \/ UpdateScrapedReturn(p)
          \/ SelectReturn(p)
          \/ SelectFallbackReturn(p)
          \/ LoadAgreements(p)
          \/ CallGradeInBatches(p)
          \/ FinalizeReturn(p)
          \/ RunReturn(p)
          \/ MarkFailedReturn(p)
          \/ RunRaise(p)
    \/ NextGrade

SpecRun == InitRun /\ [][NextRun]_vars

\* ------------------------------------------------- POST /grade-url

\* The locals of one POST /grade-url request before its handler runs
GradeUrlIdle ==
    [pc |-> "idle", scraped |-> Scraped(Null, "ebay", Null), version |-> "",
     runId |-> Null, result |-> Fail("")]

Requests == DOMAIN gu

\* what no step of a POST /grade-url handler changes
triggerVars ==
    <<serverVars, cfgVars, promptVars, dedup, parsing, pipeLocals, loopVars, tallyVars, pc,
      items>>

\* The handler of request q moves on to `where`; r400, r500 and r200 are the
\* responses that end it (r500 is sent by its catch block, which writes
\* nothing else)
GradeUrlGoto(q, where) == gu' = [gu EXCEPT ![q].pc = where]

\* Request q arrives: 401 without the token, else the body is read
GradeUrlArrive(q) ==
    /\ gu[q].pc = "idle"
    /\ \/ UNCHANGED gu
       \/ GradeUrlGoto(q, "body")
    /\ UNCHANGED <<triggerVars, dbVars, faults>>

\* readBody(req).then: JSON.parse or parseEbayItemId throws (500), the url is
\* missing or of another site (400), or the eBay item it names is fetched
GradeUrlBody(q) ==
    /\ gu[q].pc = "body"
    /\ \/ GradeUrlGoto(q, "r500")
       \/ GradeUrlGoto(q, "r400")
       \/ GradeUrlGoto(q, "fetch")
    /\ UNCHANGED <<triggerVars, dbVars, faults>>

\* fetchEbayItem returns an item eBay holds (itemWebUrl may be null), or
\* throws; upsertListings is called
GradeUrlFetchReturn(q) ==
    /\ gu[q].pc = "fetch"
    /\ \/ /\ \E l \in market.ebay :
                \E link \in {l.url, Null} :
                   gu' = [gu EXCEPT ![q].scraped = Scraped(link, "ebay", l.external_id),
                                    ![q].pc = "upsert"]
          /\ UNCHANGED faults
       \/ /\ Fault
          /\ GradeUrlGoto(q, "r500")
    /\ UNCHANGED <<triggerVars, dbVars>>

\* upsertListings([scraped]) returns the stored row (none for an item
\* without link: 500 'Failed to store listing') or throws
GradeUrlUpsertReturn(q) ==
    /\ gu[q].pc = "upsert"
    /\ \/ /\ gu[q].scraped.url = Null
          /\ GradeUrlGoto(q, "r500")
          /\ UNCHANGED <<listingsDb, faults>>
       \/ /\ gu[q].scraped.url # Null
          /\ listingsDb' = Upserted(listingsDb, {gu[q].scraped})
          /\ GradeUrlGoto(q, "criteria")
          /\ UNCHANGED faults
       \/ /\ gu[q].scraped.url # Null
          /\ Fault
          /\ GradeUrlGoto(q, "r500")
          /\ UNCHANGED listingsDb
    /\ UNCHANGED <<triggerVars, runs, events, grades>>

\* getActiveCriteria returns or throws
GradeUrlCriteria(q) ==
    /\ gu[q].pc = "criteria"
    /\ \/ /\ gu' = [gu EXCEPT ![q].version = "v1", ![q].pc = "feedback"]
          /\ UNCHANGED faults
       \/ /\ Fault
          /\ GradeUrlGoto(q, "r500")
    /\ UNCHANGED <<triggerVars, dbVars>>

\* getDisagreements and getAgreements return (neither throws); createRun is
\* called
GradeUrlLoadFeedback(q) ==
    /\ gu[q].pc = "feedback"
    /\ GradeUrlGoto(q, "create")
    /\ UNCHANGED <<triggerVars, dbVars, faults>>

\* createRun returns the id of the mini run and grade_started is logged, or
\* createRun throws
GradeUrlCreateRun(q) ==
    /\ gu[q].pc = "create"
    /\ \/ /\ runs' = Append(runs, NewRun(gu[q].version))
          /\ events' = Append(events,
                 <<Event("grade_started", gu[q].scraped.url, 0, "manual")>>)
          /\ \/ UNCHANGED faults
             \/ faults > 0 /\ faults' = faults - 1
          /\ gu' = [gu EXCEPT ![q].runId = Len(runs) + 1, ![q].pc = "model"]
       \/ /\ Fault
          /\ GradeUrlGoto(q, "r500")
          /\ UNCHANGED <<runs, events>>
    /\ UNCHANGED <<triggerVars, grades, listingsDb>>

\* gradeListing(listing, systemPrompt, false) returns or throws
GradeUrlModelReturn(q) ==
    /\ gu[q].pc = "model"
    /\ \E raw \in answers :
          LET res == gradeListing(raw, FALSE)
          IN  gu' = [gu EXCEPT ![q].result = res,
                               ![q].pc = IF res.ok THEN "insert" ELSE "r500"]
    /\ UNCHANGED <<triggerVars, dbVars, faults>>

\* insertGrade returns (grade_completed is logged) or throws
GradeUrlInsertReturn(q) ==
    /\ gu[q].pc = "insert"
    /\ \/ /\ grades' = grades \cup
                {GradeRow(gu[q].scraped.url, gu[q].version, gu[q].result,
                          CLAUDE_MODEL, gu[q].runId)}
          /\ LogEvent(gu[q].runId, "grade_completed", gu[q].scraped.url, 0, "")
          /\ GradeUrlGoto(q, "update")
       \/ /\ Fault
          /\ GradeUrlGoto(q, "r500")
          /\ UNCHANGED <<grades, events>>
    /\ UNCHANGED <<triggerVars, runs, listingsDb>>

\* Variant of GradeUrlUpdateReturn: the update is not filtered by the run id
\* and writes every row.
GradeUrlUpdateReturnEveryRun(q) ==
    /\ gu[q].pc = "update"
    /\ \/ /\ runs' = [id \in DOMAIN runs |->
                [runs[id] EXCEPT !.status = "completed", !.finished = TRUE,
                                 !.terminal_writes = @ + 1,
                                 !.listings_scraped = 1,
                                 !.listings_graded = 1,
                                 !.listings_failed = 0,
                                 !.has_average = TRUE,
                                 !.average_score = gu[q].result.score]]
          /\ LogEvent(gu[q].runId, "run_completed", Null, 0, "manual")
          /\ GradeUrlGoto(q, "r200")
       \/ /\ Fault
          /\ GradeUrlGoto(q, "r500")
          /\ UNCHANGED <<runs, events>>
    /\ UNCHANGED <<triggerVars, grades, listingsDb>>

\* The finalizing updateRun returns (run_completed is logged and 200 is
\* sent) or throws
GradeUrlUpdateReturn(q) ==
    /\ gu[q].pc = "update"
    /\ \/ /\ runs' = [runs EXCEPT ![gu[q].runId] =
                [@ EXCEPT !.status = "completed", !.finished = TRUE,
                          !.terminal_writes = @ + 1,
                          !.listings_scraped = 1,
                          !.listings_graded = 1,
                          !.listings_failed = 0,
                          !.has_average = TRUE,
                          !.average_score = gu[q].result.score]]
          /\ LogEvent(gu[q].runId, "run_completed", Null, 0, "manual")
          /\ GradeUrlGoto(q, "r200")
       \/ /\ Fault
          /\ GradeUrlGoto(q, "r500")
          /\ UNCHANGED <<runs, events>>
    /\ UNCHANGED <<triggerVars, grades, listingsDb>>

\* One run as in SpecRun, on a market of one eBay listing with batches of
\* one, and MaxUrls POST /grade-url requests
InitUrl ==
    /\ InitServer(1, "body", {FALSE}, 1, 1,
                  [ebay |-> {Scraped(1, "ebay", 1)}, craigslist |-> {}], 1)
    /\ answers = BasicOutputs
    /\ feedback = NoFeedback
    /\ gu = [q \in 1..MaxUrls |-> GradeUrlIdle]
    /\ dedup = NoDedup
    /\ parsing = NoParsing

NextUrl ==
    \/ NextRun
    \/ \E q \in Requests :
          \/ GradeUrlArrive(q)
          \/ GradeUrlBody(q)
          \/ GradeUrlFetchReturn(q)
          \/ GradeUrlUpsertReturn(q)
          \/ GradeUrlCriteria(q)
          \/ GradeUrlLoadFeedback(q)
          \/ GradeUrlCreateRun(q)
          \/ GradeUrlModelReturn(q)
          \/ GradeUrlInsertReturn(q)
          \/ GradeUrlUpdateReturn(q)

SpecUrl == InitUrl /\ [][NextUrl]_vars

\* One run as in SpecRun over one listing, in which MaxEmits calls can fail:
\* as many as the run makes logEvent calls
InitEmit ==
    /\ InitServer(1, "body", {FALSE}, 1, 1,
                  [ebay |-> {Scraped(1, "ebay", 1)}, craigslist |-> {}], MaxEmits)
    /\ faults = MaxEmits
    /\ answers = BasicOutputs
    /\ feedback = NoFeedback
    /\ gu = <<>>
    /\ dedup = NoDedup
    /\ parsing = NoParsing

SpecEmit == InitEmit /\ [][NextRun]_vars

\* ---------------------------------------------- deduplicateListings

\* The key of existingSet: `${source}:${external_id}`
IdentityKey(source, externalId) == <<source, ":", externalId>>

\* listings.map((l) => l.external_id).filter((id) => !!id)
ExternalIds(ls) ==
    LET Truthy(l) == l.external_id # Null
        withId == SelectSeq(ls, Truthy)
    IN  [k \in 1..Len(withId) |-> withId[k].external_id]

\* The rows select('external_id, source').in('external_id', externalIds) finds
ExistingRows(externalIds) ==
    {row \in listingsDb :
        \E k \in 1..Len(externalIds) : row.external_id = externalIds[k]}

\* Variant of Unique: a candidate is dropped when its external_id is stored
\* under any source.
UniqueByExternalIdOnly(ls, existing) ==
    LET existingSet == {row.external_id : row \in existing}
        Keep(l) == l.external_id = Null \/ l.external_id \notin existingSet
    IN  SelectSeq(ls, Keep)

\* listings.filter((l) => !l.external_id || !existingSet.has(key of l))
Unique(ls, existing) ==
    LET existingSet == {IdentityKey(row.source, row.external_id) : row \in existing}
        Keep(l) == \/ l.external_id = Null
                   \/ IdentityKey(l.source, l.external_id) \notin existingSet
    IN  SelectSeq(ls, Keep)

\* deduplicateListings up to its query: without listings, or without any
\* external_id among them, it returns its argument at once
DedupCall ==
    /\ dedup.pc = "call"
    /\ dedup' = IF Len(dedup.listings) = 0 \/ Len(ExternalIds(dedup.listings)) = 0
                THEN [dedup EXCEPT !.pc = "returned", !.unique = dedup.listings,
                                   !.duplicatesSkipped = 0]
                ELSE [dedup EXCEPT !.pc = "query"]
    /\ UNCHANGED <<serverVars, cfgVars, promptVars, gu, parsing, pipeLocals, loopVars, tallyVars, dbVars,
                   pc, items, faults>>

\* Variant of DedupQueryReturn: an error of the query is thrown.
DedupQueryReturnThrows ==
    /\ dedup.pc = "query"
    /\ \/ /\ Fault
          /\ dedup' = [dedup EXCEPT !.pc = "raised"]
       \/ /\ LET unique == Unique(dedup.listings,
                                  ExistingRows(ExternalIds(dedup.listings)))
             IN  dedup' = [dedup EXCEPT
                              !.pc = "returned", !.unique = unique,
                              !.duplicatesSkipped = Len(dedup.listings) - Len(unique)]
          /\ UNCHANGED faults
    /\ UNCHANGED <<serverVars, cfgVars, promptVars, gu, parsing, pipeLocals, loopVars, tallyVars, dbVars,
                   pc, items>>

\* The query returns: with an error a warning is printed and the argument is
\* returned, else the candidates are filtered against the rows found
DedupQueryReturn ==
    /\ dedup.pc = "query"
    /\ \/ /\ Fault
          /\ dedup' = [dedup EXCEPT !.pc = "returned", !.unique = dedup.listings,
                                    !.duplicatesSkipped = 0, !.warned = TRUE]
       \/ /\ LET unique == Unique(dedup.listings,
                                  ExistingRows(ExternalIds(dedup.listings)))
             IN  dedup' = [dedup EXCEPT
                              !.pc = "returned", !.unique = unique,
                              !.duplicatesSkipped = Len(dedup.listings) - Len(unique)]
          /\ UNCHANGED faults
    /\ UNCHANGED <<serverVars, cfgVars, promptVars, gu, parsing, pipeLocals, loopVars, tallyVars, dbVars,
                   pc, items>>

\* The listings deduplicateListings is called with: each of a source, with
\* or without external_id
Candidates ==
    {Scraped(1, source, externalId) :
        source \in {"ebay", "craigslist"}, externalId \in {Null, 1, 2}}

\* What the listings table can hold at the call
StoredRows ==
    {Scraped(1, "ebay", 1), Scraped(2, "craigslist", 1), Scraped(3, "craigslist", 2),
     Scraped(4, "ebay", Null)}

\* deduplicateListings is called with up to MaxCandidates listings on any
\* listings table; its query may fail
InitDedup ==
    /\ isRunning = FALSE
    /\ currentRunId = Null
    /\ currentAbortController = Null
    /\ aborted = {}
    /\ stopAt = <<>>
    /\ surfaced = <<>>
    /\ batchSize = 1
    /\ concurrency = 1
    /\ market = [ebay |-> {}, craigslist |-> {}]
    /\ answers = BasicOutputs
    /\ feedback = NoFeedback
    /\ gu = <<>>
    /\ pc = <<>>
    /\ dryRun = <<>>
    /\ promptVersion = <<>>
    /\ runId = <<>>
    /\ allListings = <<>>
    /\ errMsg = <<>>
    /\ listings = <<>>
    /\ items = <<>>
    /\ i = <<>>
    /\ j = <<>>
    /\ chunk = <<>>
    /\ r = <<>>
    /\ graded = <<>>
    /\ failed = <<>>
    /\ totalScore = <<>>
    /\ stats = <<>>
    /\ parsing = NoParsing
    /\ systemPrompt = <<>>
    /\ calls = <<>>
    /\ runs = <<>>
    /\ events = <<>>
    /\ grades = {}
    /\ listingsDb \in SUBSET StoredRows
    /\ faults \in 0..1
    /\ \E n \in 0..MaxCandidates :
          \E ls \in [1..n -> Candidates] :
             dedup = [NoDedup EXCEPT !.pc = "call", !.listings = ls]

NextDedup ==
    \/ DedupCall
    \/ DedupQueryReturn

SpecDedup == InitDedup /\ [][NextDedup]_vars

\* ------------------------------------------------- claims on the engine

Positions(p) == DOMAIN items[p]

InFlight(p) == {x \in Positions(p) : items[p][x].st \in {"started", "model", "insert", "completing"}}

RejectedItems(p) == {x \in Positions(p) : items[p][x].st = "rejected"}

FulfilledItems(p) == {x \in Positions(p) : items[p][x].st = "fulfilled"}

\* Indices of the logEvent calls of p's run of the given types made for position x
EventsOf(p, types, x) ==
    {q \in 1..Len(events[runId[p]]) :
        /\ events[runId[p]][q].type \in types
        /\ events[runId[p]][q].item = x}

RECURSIVE SumScores(_, _)
SumScores(p, S) ==
    IF S = {} THEN 0
    ELSE LET x == CHOOSE y \in S : TRUE
         IN  items[p][x].score + SumScores(p, S \ {x})

Returned(p) == stats[p].ret

\* The window (batch number, window number in the batch) the engine's
\* contract assigns position x to, both 0-based.
WindowOf(x) ==
    <<(x - 1) \div batchSize, ((x - 1) % batchSize) \div concurrency>>

EarlierWindow(x, y) ==
    \/ WindowOf(x)[1] < WindowOf(y)[1]
    \/ WindowOf(x)[1] = WindowOf(y)[1] /\ WindowOf(x)[2] < WindowOf(y)[2]

\* C1: a failing item (model call error, unparseable or invalid response,
\* grade insert error) is counted in `failed` and gets one grade_failed event
\* carrying its error text; it never stops the engine, which goes on until
\* every listing has been attempted and then returns its statistics.
C1_FailureIsolated ==
    \A p \in DOMAIN pc :
       /\ failed[p] <= Cardinality(RejectedItems(p))
       /\ \A x \in Positions(p) :
             \A q \in EventsOf(p, {"grade_failed"}, x) :
                /\ items[p][x].st = "rejected"
                /\ events[runId[p]][q].info = items[p][x].reason
                /\ events[runId[p]][q].info # ""
       /\ Returned(p) =>
             /\ failed[p] = Cardinality(RejectedItems(p))
             /\ stats[p].failed = failed[p]
             /\ \A x \in Positions(p) : Settled(items[p][x])
             /\ \A x \in RejectedItems(p) :
                   Cardinality(EventsOf(p, {"grade_failed"}, x)) = 1
       /\ pc[p] \in {"grade_loop", "window", "tally", "grade_returned"}
       /\ (pc[p] # "grade_returned") => ENABLED NextGrade

\* C1 witness: the engine returned with a failed item of every kind of cause
\* next to a graded item of a later window.
C1_Witness ==
    \E p \in DOMAIN pc :
       /\ Returned(p)
       /\ stats[p].graded >= 1
       /\ \E x, y \in RejectedItems(p) :
             /\ items[p][x].reason = "API error"
             /\ items[p][y].reason = "Failed to insert grade"
       /\ \E x \in RejectedItems(p), y \in FulfilledItems(p) : EarlierWindow(x, y)

\* C2: when gradeInBatches returns, graded + failed is the number of input
\* listings: every listing was started exactly once and is counted in exactly
\* one of the two counters.
C2_AllCounted ==
    \A p \in DOMAIN pc :
       Returned(p) =>
          /\ stats[p].graded + stats[p].failed = Len(listings[p])
          /\ stats[p].graded = Cardinality(FulfilledItems(p))
          /\ stats[p].failed = Cardinality(RejectedItems(p))
          /\ \A x \in Positions(p) :
                Cardinality(EventsOf(p, {"grade_started"}, x)) = 1

\* C2 witness: a return after several batches, the last one short, with both
\* counters non-zero.
C2_Witness ==
    \E p \in DOMAIN pc :
       /\ Returned(p)
       /\ Len(listings[p]) = 3 /\ batchSize = 2 /\ concurrency = 2
       /\ stats[p].graded >= 1 /\ stats[p].failed >= 1

\* C4: at every moment the number of items started and not yet settled is at
\* most `concurrency`.
C4_BoundedInFlight ==
    \A p \in DOMAIN pc : Cardinality(InFlight(p)) <= concurrency

\* C4 witness: `concurrency` model calls in flight at once, in a batch larger
\* than the window.
C4_Witness ==
    \E p \in DOMAIN pc :
       /\ concurrency = 2 /\ batchSize > concurrency
       /\ Cardinality({x \in Positions(p) : items[p][x].st = "model"}) = concurrency

\* C8: batches run in input order and windows in order within the batch: an
\* item of a later window or batch is started only after every item of all
\* earlier windows has settled.
C8_WindowsInOrder ==
    \A p \in DOMAIN pc :
       \A x, y \in Positions(p) :
          (EarlierWindow(x, y) /\ items[p][y].st # "pending") => Settled(items[p][x])

\* C8 witness: an item of the second window of a batch is in flight, after a
\* first window in which one item failed and one succeeded.
C8_Witness ==
    \E p \in DOMAIN pc :
       /\ batchSize = 3 /\ concurrency = 2 /\ Len(listings[p]) >= 3
       /\ items[p][1].st = "rejected" /\ items[p][2].st = "fulfilled"
       /\ items[p][3].st = "model"

\* C9: the grade_started call of an item precedes the grade_completed or
\* grade_failed call made for that item; an item has one started call once it
\* is started and one outcome call once the engine has returned, never more.
C9_StartedBeforeOutcome ==
    \A p \in DOMAIN pc :
       \A x \in Positions(p) :
          LET started == EventsOf(p, {"grade_started"}, x)
              outcome == EventsOf(p, {"grade_completed", "grade_failed"}, x)
          IN  /\ Cardinality(started) = IF items[p][x].st = "pending" THEN 0 ELSE 1
              /\ Cardinality(outcome) <= 1
              /\ \A q \in outcome : \E s \in started : s < q
              /\ Returned(p) => Cardinality(outcome) = 1
              /\ \A q \in outcome :
                    (events[runId[p]][q].type = "grade_completed")
                       = (items[p][x].st \in {"completing", "fulfilled"})

\* C9 witness: two items of one window whose outcomes were logged in the
\* order opposite to their starts, one completed and one failed.
C9_Witness ==
    \E p \in DOMAIN pc :
       /\ Returned(p)
       /\ \E x, y \in Positions(p) :
             /\ x < y /\ WindowOf(x) = WindowOf(y)
             /\ \E qx \in EventsOf(p, {"grade_failed"}, x),
                   qy \in EventsOf(p, {"grade_completed"}, y) : qy < qx

\* C10: the returned averageScore is the sum of the scores of the graded
\* items divided by `graded`, rounded to the nearest integer (a half rounds
\* up), and 0 when nothing was graded; failed items add nothing to the sum.
C10_AverageScore ==
    \A p \in DOMAIN pc :
       Returned(p) =>
          LET n == stats[p].graded
              s == SumScores(p, FulfilledItems(p))
              a == stats[p].averageScore
          IN  IF n = 0 THEN a = 0
              ELSE /\ 2 * n * a - n <= 2 * s
                   /\ 2 * s < 2 * n * a + n

\* C10 witness: two graded items whose mean ends in one half, and a failed one.
C10_Witness ==
    \E p \in DOMAIN pc :
       /\ Returned(p)
       /\ stats[p].graded = 2 /\ stats[p].failed = 1
       /\ SumScores(p, FulfilledItems(p)) = 105
       /\ stats[p].averageScore = 53

\* ------------------------------------------------ the current-run slot

\* The requests whose runPipeline call is in progress
RunsInProgress == {p \in Procs : RunInProgress(p)}

\* C3: at most one runPipeline invocation is in progress at any time, whatever
\* the interleaving of the POST /trigger requests.
C3_AtMostOneRun == Cardinality(RunsInProgress) <= 1

\* C7: a POST /trigger received while a run is active is rejected and changes
\* nothing.  The handler answers 409 exactly when isRunning is set, so the
\* request is rejected in every state with a run in progress only if
\* isRunning is set in all of them; and the step of a rejected request leaves
\* the slot, the run records and the grades as they are.
C7_TriggerRejectedWhileActive ==
    /\ RunsInProgress # {} => isRunning
    /\ \A p \in Procs : pc[p] = "rejected" => runId[p] = Null

\* ------------------------------------------------------- cancellation

\* Listings of the batches the engine of p had started when its signal was
\* aborted (all of them when it had started them all)
CountedAtStop(p) == Min(Len(listings[p]), stopAt[p] * batchSize)

\* C5: when the signal of a run is aborted before batch k starts, no listing
\* of batches k..end gets a grade_started event, a Grader call or a Grade
\* row, and the returned graded + failed is the number of listings of
\* batches 1..k-1.
C5_CancelledBatchesUntouched ==
    \A p \in Procs :
       p \in aborted =>
          /\ \A x \in Positions(p) :
                x > stopAt[p] * batchSize =>
                   /\ items[p][x].st = "pending"
                   /\ EventsOf(p, {"grade_started"}, x) = {}
                   /\ \A g \in grades :
                         ~(g.run = runId[p] /\ g.listing_id = listings[p][x])
          /\ Returned(p) =>
                stats[p].graded + stats[p].failed = CountedAtStop(p)

\* C6: a run stopped while grading (at least one batch started) is not
\* interrupted: its engine goes on to return statistics, and when the run is
\* finalized the counters of its record count the items that had settled
\* when the cancellation was observed, which is at the start of the next
\* batch: the listings of the batches started before the stop.
C6_StoppedRunCountsSettled ==
    \A p \in Procs :
       (p \in aborted /\ stopAt[p] >= 1) =>
          /\ pc[p] \in {"grade_loop", "window", "tally"} => ENABLED NextGrade
          /\ pc[p] = "ev_run_completed" =>
                /\ runs[runId[p]].status = "completed"
                /\ runs[runId[p]].listings_graded + runs[runId[p]].listings_failed
                      = CountedAtStop(p)

\* ------------------------------------------------------------- dry run

\* Grade rows inserted by the engine of p for the listing of position x
GradeRowsOf(p, x) ==
    {g \in grades : g.run = runId[p] /\ g.listing_id = listings[p][x]}

\* C11: with dryRun set the model is never called; gradeListing yields score
\* 50, grade "C" and no flags for every item, so no item fails in the
\* grading call; the grade row is still inserted (with that result) and
\* grade_started and grade_completed are still logged for each item.
C11_DryRunFixedResult ==
    \A p \in Procs :
       dryRun[p] =>
          \A x \in Positions(p) :
             /\ ~items[p][x].api
             /\ items[p][x].st = "rejected" =>
                   items[p][x].reason = "Failed to insert grade"
             /\ items[p][x].st \in {"insert", "completing", "fulfilled"} =>
                   /\ items[p][x].score = 50
                   /\ items[p][x].grade = "C"
                   /\ items[p][x].flags = "empty"
             /\ \A g \in GradeRowsOf(p, x) :
                   /\ g.score = 50 /\ g.grade = "C" /\ g.flags = "empty"
                   /\ g.model = "dry-run"
             /\ items[p][x].st \in {"completing", "fulfilled"} =>
                   /\ GradeRowsOf(p, x) # {}
                   /\ Cardinality(EventsOf(p, {"grade_started"}, x)) = 1
                   /\ Cardinality(EventsOf(p, {"grade_completed"}, x)) = 1

\* C11 witness: a dry run of three listings has returned with all of them
\* graded and stored.
C11_Witness ==
    \E p \in Procs :
       /\ dryRun[p] /\ Returned(p)
       /\ stats[p].graded = 3
       /\ \A x \in Positions(p) : GradeRowsOf(p, x) # {}

\* ------------------------------------------------- nothing left to grade

\* p is loading the feedback, or is in gradeInBatches or just out of it
FeedbackOrGrading(p) ==
    pc[p] \in {"disagreements", "agreements", "grade_loop", "window", "tally",
               "grade_returned"}

\* C12: when the selection of ungraded listings returns none, the run ends
\* completed with listings_graded = 0, listings_failed = 0 and no
\* average_score, and neither the feedback loading, nor gradeInBatches, nor
\* the model is invoked for it: those only run on a non-empty selection.
C12_NothingToGrade ==
    \A p \in Procs :
       /\ FeedbackOrGrading(p) => Len(listings[p]) > 0
       /\ pc[p] = "finalize_empty" => Len(listings[p]) = 0
       /\ (pc[p] \in {"finalize_empty", "ev_run_completed"} /\ Len(listings[p]) = 0) =>
             /\ items[p] = <<>>
             /\ ~\E g \in grades : g.run = runId[p]
             /\ \A q \in 1..Len(events[runId[p]]) :
                   events[runId[p]][q].type \notin
                      {"grade_started", "grade_completed", "grade_failed"}
       /\ (pc[p] = "ev_run_completed" /\ Len(listings[p]) = 0) =>
             /\ runs[runId[p]].status = "completed"
             /\ runs[runId[p]].listings_graded = 0
             /\ runs[runId[p]].listings_failed = 0
             /\ ~runs[runId[p]].has_average

\* C12 witness: a run has scraped and stored a listing that an earlier run
\* had graded, found nothing to grade and completed.
C12_Witness ==
    \E p \in Procs :
       /\ pc[p] = "ev_run_completed"
       /\ Len(listings[p]) = 0
       /\ allListings[p] # {}
       /\ runs[runId[p]].listings_scraped = 1
       /\ \E g \in grades : g.run # runId[p]

\* ------------------------------------------------------- fatal errors

\* p is in the catch block of runPipeline
Catching(p) == pc[p] \in {"mark_failed", "ev_run_failed"}

\* The types of the logEvent calls of the run of p
EventTypes(p) == {events[runId[p]][q].type : q \in 1..Len(events[runId[p]])}

GradeEventTypes == {"grade_started", "grade_completed", "grade_failed"}

\* The catch block has marked the run of p failed with the caught message and
\* logged run_failed with it as the last event of the run
MarkedFailed(p) ==
    /\ runs[runId[p]].status = "failed"
    /\ runs[runId[p]].error_message = errMsg[p]
    /\ errMsg[p] # ""
    /\ events[runId[p]][Len(events[runId[p]])].type = "run_failed"
    /\ events[runId[p]][Len(events[runId[p]])].info = errMsg[p]

\* The catch block is left only by throwing to the caller of runPipeline
CatchRaises ==
    [][\A p \in Procs : (Catching(p) /\ ~Catching(p)') => pc'[p] = "raised"]_vars

\* C13: when searchEbay or searchCraigslist throws, the run goes to the catch
\* block: once the update that marks it has returned the run is failed with
\* a non-empty error_message and run_failed is logged; the error is thrown
\* again to the caller; nothing is upserted and nothing is graded in the run.
C13_ScrapeFailureIsFatal ==
    /\ [](\A p \in Procs :
            errMsg[p] \in {"searchEbay failed", "searchCraigslist failed"} =>
               /\ Catching(p)
               /\ listingsDb = {}
               /\ "listings_stored" \notin EventTypes(p)
               /\ items[p] = <<>> /\ listings[p] = <<>>
               /\ EventTypes(p) \cap GradeEventTypes = {}
               /\ ~\E g \in grades : g.run = runId[p]
               /\ pc[p] = "ev_run_failed" => MarkedFailed(p))
    /\ CatchRaises

\* C13 witness: eBay returned a listing, Craigslist failed, and the run is
\* marked failed.
C13_Witness ==
    \E p \in Procs :
       /\ pc[p] = "ev_run_failed"
       /\ errMsg[p] = "searchCraigslist failed"
       /\ allListings[p] # {}
       /\ runs[runId[p]].status = "failed"

\* p caught an error of upsertListings, of the listings_scraped update (or
\* of the finalizing update of a run that graded nothing), or of the
\* fallback query of the selection
StoreOrSelectFailed(p) ==
    \/ errMsg[p] \in {"Failed to upsert listings", "Failed to fetch graded listings"}
    \/ errMsg[p] = "Failed to update run" /\ ~Returned(p)

\* A failure while storing or selecting ends the run in the catch block,
\* which marks it failed with the message; gradeInBatches is never invoked
StoreOrSelectFailureIsFatal ==
    \A p \in Procs :
       StoreOrSelectFailed(p) =>
          /\ Catching(p)
          /\ items[p] = <<>>
          /\ EventTypes(p) \cap GradeEventTypes = {}
          /\ ~\E g \in grades : g.run = runId[p]
          /\ pc[p] = "ev_run_failed" => MarkedFailed(p)

\* C14 as stated: a persistence failure during storing (upsertListings, the
\* listings_scraped update) or during ungraded selection aborts the run: it
\* is marked failed with the message, the error is thrown to the caller and
\* gradeInBatches is never invoked.  A failure of the rpc of the selection
\* is such a failure: after it the run must go to the catch block.
C14_AnySelectFailureAborts ==
    /\ []StoreOrSelectFailureIsFatal
    /\ CatchRaises
    /\ [][\A p \in Procs :
            pc[p] = "select_fallback" =>
               pc'[p] \in {"select_fallback", "mark_failed"}]_vars

\* C14 amended: as C14, but during the selection only a failure of the
\* fallback query aborts the run; a failure of the rpc alone makes
\* getUngradedListings use the fallback query, and the run goes on.
C14_StoreOrSelectFailureIsFatal ==
    /\ []StoreOrSelectFailureIsFatal
    /\ CatchRaises
    /\ [][\A p \in Procs :
            pc[p] = "select" =>
               pc'[p] \in {"select", "select_fallback", "finalize_empty",
                           "disagreements"}]_vars

\* C14 witness: the listings were stored, the rpc and the fallback query
\* failed, and the run is marked failed.
C14_Witness ==
    \E p \in Procs :
       /\ pc[p] = "ev_run_failed"
       /\ errMsg[p] = "Failed to fetch graded listings"
       /\ listingsDb # {}
       /\ runs[runId[p]].status = "failed"

\* ------------------------------------------------ per-item failures

\* p is inside gradeInBatches
Grading(p) == pc[p] \in {"grade_loop", "window", "tally"}

\* C15: failing items never change the outcome of the run.  gradeInBatches
\* never throws into runPipeline, whatever number k of its n listings fail;
\* the run whose finalizing update returned is completed with
\* listings_failed = k and listings_graded = n - k; and runPipeline then
\* returns the run id to triggerRun instead of raising.
C15_ItemFailuresNotFatal ==
    /\ [](\A p \in Procs :
            /\ (Grading(p) \/ pc[p] = "grade_returned") => errMsg[p] = ""
            /\ (pc[p] = "ev_run_completed" /\ Len(listings[p]) > 0) =>
                  /\ \A x \in Positions(p) : Settled(items[p][x])
                  /\ runs[runId[p]].status = "completed"
                  /\ runs[runId[p]].listings_failed = Cardinality(RejectedItems(p))
                  /\ runs[runId[p]].listings_graded =
                        Len(listings[p]) - Cardinality(RejectedItems(p)))
    /\ [][\A p \in Procs :
            /\ Grading(p) => (Grading(p)' \/ pc'[p] = "grade_returned")
            /\ (pc[p] = "ev_run_completed" /\ pc'[p] # pc[p]) =>
                  (pc'[p] = "done" /\ currentRunId' = runId[p])]_vars

\* C15 witness: both listings of a run failed in grading and the run is
\* completed with listings_failed = 2.
C15_Witness ==
    \E p \in Procs :
       /\ pc[p] = "ev_run_completed"
       /\ Len(listings[p]) = 2
       /\ Cardinality(RejectedItems(p)) = 2
       /\ runs[runId[p]].status = "completed"
       /\ runs[runId[p]].listings_failed = 2

\* ------------------------------------------------------ terminal status

\* The runs whose runPipeline invocation has returned or thrown
EndedRuns ==
    {id \in DOMAIN runs : /\ \A p \in Procs : runId[p] # id
                          /\ \A q \in Requests : gu[q].runId # id}

\* C16: whatever collaborators fail, a terminal status (completed or failed)
\* is written to every run created by runPipeline exactly once by the time
\* runPipeline returns or raises: never twice, and never not at all.
C16_TerminalStatusExactlyOnce ==
    /\ \A id \in DOMAIN runs : runs[id].terminal_writes <= 1
    /\ \A id \in EndedRuns :
          /\ runs[id].terminal_writes = 1
          /\ runs[id].status \in {"completed", "failed"}

\* ------------------------------------------------------------ ingestion

\* The stored rows with the identity (source, external_id) of listing l
RowsOfIdentity(l) ==
    {row \in listingsDb : row.source = l.source /\ row.external_id = l.external_id}

\* C18: two scraped listings with the same (source, external_id) submitted in
\* one ingestion call leave at most one stored row: when upsertListings has
\* returned for the listings of a run, no two of them that share their
\* identity are stored twice.
C18_OneRowPerIdentity ==
    \A p \in Procs :
       pc[p] = "ev_listings_stored" =>
          \A a, b \in allListings[p] :
             (a # b /\ a.source = b.source /\ a.external_id = b.external_id) =>
                Cardinality(RowsOfIdentity(a)) <= 1

\* -------------------------------------- claims on runs and POST /grade-url

Terminal(run) == run.status \in {"completed", "failed"}

\* C17: once the status of a run has been written as completed or failed,
\* no later step of a pipeline run or of a POST /grade-url handler changes
\* its record (status, counters, finished_at, error_message).
C17_FinalizedRunImmutable ==
    [][\A id \in DOMAIN runs : Terminal(runs[id]) => runs'[id] = runs[id]]_vars

\* A triggered run and the mini run of a request have both been finalized:
\* the later of the two updates was made with the other record finalized
C17_Witness ==
    \E p \in Procs, q \in Requests :
       /\ pc[p] \in {"done", "raised"}
       /\ gu[q].pc = "r200"
       /\ \E a, b \in DOMAIN runs :
             /\ a # b
             /\ Terminal(runs[a])
             /\ runs[a].status = "failed"
             /\ runs[b].status = "completed"
             /\ gu[q].runId = b

\* C19: after any interleaving of pipeline runs and POST /grade-url requests
\* the grades table holds at most one row per (listing_id, prompt_version).
C19_OneGradePerListingVersion ==
    \A g1, g2 \in grades :
       (g1.listing_id = g2.listing_id /\ g1.prompt_version = g2.prompt_version)
          => g1 = g2

\* ------------------------------------------- claims on response validation

\* The response is a text that parses to an object
ParsedObject(raw) == raw.kind = "text" /\ raw.body = "object"

\* typeof parsed.score !== 'number' || typeof parsed.grade !== 'string' ||
\* typeof parsed.rationale !== 'string'
BadStructure(raw) ==
    /\ ParsedObject(raw)
    /\ \/ raw.scoreT # "number"
       \/ raw.gradeT # "string"
       \/ raw.ratT # "string"

\* score, grade and rationale are well typed; flags is missing or no array
LaxFlags(raw) ==
    /\ ParsedObject(raw)
    /\ ~BadStructure(raw)
    /\ raw.flagsT # "array"

\* C20: a response whose score is missing or not a number, whose grade is
\* not a string or whose rationale is not a string makes its item fail with
\* 'Invalid grade response structure': the item gets no grade row, it is
\* counted once in `failed`, and the run carries no error.  A well-typed
\* response whose flags are missing or not an array is accepted with empty
\* flags, in the result and in the grade row.
C20_ResponseValidation ==
    \A p \in Procs :
       /\ \A x \in Positions(p) :
             LET it == items[p][x]
             IN  /\ BadStructure(it.raw) =>
                       /\ it.st = "rejected"
                       /\ it.reason = "Invalid grade response structure"
                       /\ GradeRowsOf(p, x) = {}
                       /\ (Grading(p) \/ pc[p] = "grade_returned") => errMsg[p] = ""
                 /\ LaxFlags(it.raw) =>
                       /\ it.st = "rejected" => it.reason = "Failed to insert grade"
                       /\ it.st # "rejected" =>
                             /\ it.st \in {"insert", "completing", "fulfilled"}
                             /\ it.flags = "empty"
                       /\ \A g \in GradeRowsOf(p, x) : g.flags = "empty"
                       /\ it.st \in {"completing", "fulfilled"} =>
                             Cardinality(GradeRowsOf(p, x)) = 1
       /\ pc[p] = "grade_returned" =>
             /\ stats[p].failed = Cardinality(RejectedItems(p))
             /\ stats[p].graded = Cardinality(FulfilledItems(p))

\* The grading call has returned for two listings: one item was rejected for
\* a grade that is no string, the other was accepted and stored although its
\* flags were no array
C20_Witness ==
    \E p \in Procs :
       /\ pc[p] = "grade_returned"
       /\ Len(listings[p]) = 2
       /\ \E x, y \in Positions(p) :
             /\ BadStructure(items[p][x].raw)
             /\ items[p][x].raw.gradeT # "string"
             /\ LaxFlags(items[p][y].raw)
             /\ items[p][y].raw.flagsT = "string"
             /\ items[p][y].st = "fulfilled"
       /\ stats[p].failed = 1
       /\ stats[p].graded = 1

\* ------------------------------------------------ claims on stored grades

\* C21: every row of the grades table, inserted by gradeInBatches or by the
\* POST /grade-url handler, has a score within 0..100 and a grade letter among
\* A, B, C, D, F, whatever the model answered.
C21_GradeRowsInRange ==
    \A g \in grades : g.score \in 0..100 /\ g.grade \in {"A", "B", "C", "D", "F"}

\* ------------------------------------------------ claims on event emission

\* What a task of gradeInBatches can be rejected with: the errors of
\* gradeListing and of insertGrade
ItemErrors ==
    {"API error", "No text response from Claude", "SyntaxError",
     "Invalid grade response structure", "Failed to insert grade"}

\* C22: a failing logEvent is swallowed.  A step that emits an event, whether
\* or not the emit fails, raises nothing (no error is caught, the run does not
\* go to its catch block or out of runPipeline) and rejects no item; an item
\* is only ever rejected with an error of gradeListing or insertGrade; and
\* the run that is finalized is completed with the counts of its items'
\* outcomes and one grade row per graded item, as without emit failures,
\* and runPipeline then returns its id.
C22_EmitFailuresSwallowed ==
    /\ [](\A p \in Procs :
            /\ \A x \in Positions(p) :
                  items[p][x].st = "rejected" => items[p][x].reason \in ItemErrors
            /\ pc[p] = "ev_run_completed" =>
                  /\ runs[runId[p]].status = "completed"
                  /\ runs[runId[p]].listings_graded = Cardinality(FulfilledItems(p))
                  /\ runs[runId[p]].listings_failed = Cardinality(RejectedItems(p))
                  /\ \A x \in FulfilledItems(p) : Cardinality(GradeRowsOf(p, x)) = 1
                  /\ \A x \in RejectedItems(p) : GradeRowsOf(p, x) = {})
    /\ [][events' # events =>
            \A p \in Procs :
               /\ errMsg'[p] = errMsg[p]
               /\ pc'[p] \notin {"mark_failed", "raised"}
               /\ RejectedItems(p)' = RejectedItems(p)]_vars
    /\ [][\A p \in Procs :
            pc[p] = "ev_run_completed" => pc'[p] \in {"ev_run_completed", "done"}]_vars

\* Every logEvent call of a run failed (each failure of the budget used was
\* one of the run's emits), and the run is completed with its listing graded
C22_Witness ==
    \E p \in Procs :
       /\ pc[p] = "ev_run_completed"
       /\ Len(listings[p]) = 1
       /\ FulfilledItems(p) = {1}
       /\ runs[runId[p]].listings_graded = 1
       /\ Len(events[runId[p]]) = MaxEmits
       /\ faults = 0

\* --------------------------------------------- claims on the fatal path

\* runPipeline has thrown out of its catch block after the updateRun(failed)
\* of that block failed: the run it created is left in status running
MarkingFailed(p) ==
    /\ pc[p] = "raised"
    /\ surfaced[p].thrown # {}
    /\ \E id \in EndedRuns : runs[id].status = "running"

\* C23 as claimed: when marking the run failed fails too, the caller of
\* runPipeline is given both the original error and the marking error.
C23_BothErrorsReachCaller ==
    \A p \in Procs :
       MarkingFailed(p) =>
          /\ \E e \in surfaced[p].thrown : e.kind = "fatal"
          /\ \E e \in surfaced[p].thrown : e.kind = "marking"

\* C23: when marking the run failed fails too, the original error is thrown
\* to the caller of runPipeline with its message, and the marking error is
\* printed by the catch block; neither is dropped, and the caller is given
\* the original error alone.
C23_OriginalThrownMarkingPrinted ==
    /\ [](\A p \in Procs :
            MarkingFailed(p) =>
               /\ \E e \in surfaced[p].thrown : e.kind = "fatal" /\ e.msg # ""
               /\ \A e \in surfaced[p].thrown : e.kind = "fatal"
               /\ \E e \in surfaced[p].logError : e.kind = "marking")
    /\ [][\A p \in Procs :
            (pc[p] = "mark_failed" /\ pc'[p] = "raised") =>
               surfaced'[p].thrown = {Err("fatal", errMsg[p])}]_vars

\* The search failed, then the update that marks the run failed failed
C23_Witness ==
    \E p \in Procs :
       /\ MarkingFailed(p)
       /\ surfaced[p].thrown = {Err("fatal", "searchEbay failed")}
       /\ surfaced[p].logError # {}

\* C24: when the finalizing updateRun fails after gradeInBatches has
\* returned, the error goes to the catch block and from there to the caller
\* of runPipeline; from the failure on, no grade row and no event is removed,
\* no item is graded again, and the only event added is run_failed.
C24_FinalizeFailurePropagates ==
    /\ [][\A p \in Procs :
            (pc[p] = "grade_returned" /\ pc'[p] # "grade_returned"
                /\ runs' = runs) =>
               /\ pc'[p] = "mark_failed"
               /\ errMsg'[p] = "Failed to update run"
               /\ grades' = grades
               /\ events' = events
               /\ items' = items]_vars
    /\ [][\A p \in Procs :
            Catching(p) =>
               /\ grades' = grades
               /\ items'[p] \in {items[p], <<>>}
               /\ pc'[p] \in {pc[p], "ev_run_failed", "raised"}
               /\ \A id \in DOMAIN events :
                     \/ events'[id] = events[id]
                     \/ /\ id = runId[p]
                        /\ events'[id] =
                              Append(events[id],
                                     Event("run_failed", Null, 0, errMsg[p]))
               /\ pc'[p] = "raised" =>
                     surfaced'[p].thrown = {Err("fatal", errMsg[p])}]_vars

\* The run had graded a listing and stored its row when the finalizing
\* update failed; runPipeline has thrown that error and the row is there
C24_Witness ==
    \E p \in Procs :
       /\ pc[p] = "raised"
       /\ surfaced[p].thrown = {Err("fatal", "Failed to update run")}
       /\ \E g \in grades : g.run = 1
       /\ \E q \in 1..Len(events[1]) : events[1][q].type = "grade_completed"

\* ------------------------------------------------ claims on run creation

\* C25: when createRun fails, runPipeline throws to its caller at once: the
\* failing step writes nothing (no run, event, listing or grade) and calls
\* no scraper, and no run record is left in status running.
C25_CreateRunFailureRaises ==
    /\ [][\A p \in Procs :
            (pc[p] = "create" /\ pc'[p] # "create" /\ Len(runs') = Len(runs)) =>
               /\ pc'[p] = "raised"
               /\ surfaced'[p].thrown = {Err("fatal", "Failed to create run")}
               /\ UNCHANGED dbVars]_vars
    /\ [](\A p \in Procs :
            (pc[p] = "raised" /\ Err("fatal", "Failed to create run") \in surfaced[p].thrown) =>
               /\ runs = <<>>
               /\ events = <<>>
               /\ grades = {}
               /\ listingsDb = {})

\* createRun has failed and runPipeline has thrown its error
C25_Witness ==
    \E p \in Procs :
       /\ pc[p] = "raised"
       /\ surfaced[p].thrown = {Err("fatal", "Failed to create run")}

\* ------------------------------------------------ claims on stage order

\* The stage of runPipeline a control position belongs to: 0 run creation,
\* 1 eBay scrape, 2 Craigslist scrape, 3 storing, 4 ungraded selection,
\* 5 feedback loading, 6 grading, 7 finalization, 8 ended
PcStage(l) ==
    CASE l \in {"body", "criteria", "create"} -> 0
      [] l \in {"ev_scrape_started_ebay", "search_ebay",
                "ev_scrape_completed_ebay"} -> 1
      [] l \in {"ev_scrape_started_cl", "search_cl", "ev_scrape_completed_cl"} -> 2
      [] l \in {"upsert", "ev_listings_stored", "update_scraped"} -> 3
      [] l \in {"select", "select_fallback"} -> 4
      [] l \in {"disagreements", "agreements"} -> 5
      [] l \in {"grade_loop", "window", "tally"} -> 6
      [] l \in {"grade_returned", "finalize_empty", "ev_run_completed",
                "mark_failed", "ev_run_failed"} -> 7
      [] OTHER -> 8

\* The stage an event is emitted in
EventStage(e) ==
    CASE e.type \in {"scrape_started", "scrape_completed"} ->
            IF e.info = "ebay" THEN 1 ELSE 2
      [] e.type = "listings_stored" -> 3
      [] e.type \in {"grade_started", "grade_completed", "grade_failed"} -> 6
      [] OTHER -> 7

\* C26: a runPipeline execution goes through its stages in order, one at a
\* time: its control only moves within a stage, to the next stage, from the
\* selection of nothing straight to finalization, or to the catch block and
\* out; the events of the run are emitted in stage order (eBay scrape,
\* Craigslist scrape, listings_stored, grading events); no grade_started and
\* no model call comes before listings_stored; and run_completed or
\* run_failed is emitted once at most and is the last event.
C26_StagesInOrder ==
    /\ [][\A p \in Procs :
            (PcStage(pc[p]) < 8 /\ pc'[p] # pc[p]) =>
               \/ PcStage(pc'[p]) = PcStage(pc[p])
               \/ PcStage(pc'[p]) = PcStage(pc[p]) + 1
               \/ pc[p] \in {"select", "select_fallback"} /\ pc'[p] = "finalize_empty"
               \/ pc[p] \notin {"body", "criteria", "create"} /\ pc'[p] = "mark_failed"
               \/ pc[p] \in {"criteria", "create"} /\ pc'[p] = "raised"]_vars
    /\ [](\A p \in Procs :
            runId[p] # Null =>
               LET ev == events[runId[p]]
               IN  /\ \A a, b \in 1..Len(ev) :
                         a < b => /\ EventStage(ev[a]) <= EventStage(ev[b])
                                  /\ EventStage(ev[a]) < 7
                   /\ \A b \in 1..Len(ev) :
                         EventStage(ev[b]) = 6 =>
                            \E a \in 1..(b - 1) : ev[a].type = "listings_stored"
                   /\ (\E x \in Positions(p) : items[p][x].st # "pending") =>
                         \E a \in 1..Len(ev) : ev[a].type = "listings_stored"
                   /\ PcStage(pc[p]) >= 3 /\ pc[p] \notin {"mark_failed", "ev_run_failed"}
                         => /\ Len(ev) >= 4
                            /\ ev[1].type = "scrape_started" /\ ev[1].info = "ebay"
                            /\ ev[2].type = "scrape_completed" /\ ev[2].info = "ebay"
                            /\ ev[3].type = "scrape_started" /\ ev[3].info = "craigslist"
                            /\ ev[4].type = "scrape_completed" /\ ev[4].info = "craigslist")

\* A run that went through every stage: two listings graded, then finalized
C26_Witness ==
    \E p \in Procs :
       /\ pc[p] = "ev_run_completed"
       /\ Len(listings[p]) = 2
       /\ LET ev == events[runId[p]]
          IN  /\ ev[5].type = "listings_stored"
              /\ ev[6].type = "grade_started"
              /\ ev[Len(ev)].type = "run_completed"
              /\ \E a \in 1..Len(ev) : ev[a].type = "grade_failed"

\* ------------------------------------- claims on administrative rejections

IdentityStored(l) ==
    /\ l.external_id # Null
    /\ \E row \in listingsDb :
          row.source = l.source /\ row.external_id = l.external_id

\* C28: when its existence check succeeds (or is not needed),
\* deduplicateListings returns, in input order, exactly the candidates whose
\* (source, external_id) identity is not stored, the candidates without
\* external_id among them, and duplicatesSkipped is the input length minus
\* the length of the list returned.
C28_DedupDropsStoredIdentities ==
    (dedup.pc = "returned" /\ ~dedup.warned) =>
       LET NotStored(l) == ~IdentityStored(l)
       IN  /\ dedup.unique = SelectSeq(dedup.listings, NotStored)
           /\ dedup.duplicatesSkipped = Len(dedup.listings) - Len(dedup.unique)
           /\ \A k \in 1..Len(dedup.listings) :
                 dedup.listings[k].external_id = Null =>
                    \E m \in 1..Len(dedup.unique) : dedup.unique[m] = dedup.listings[k]

\* Of two candidates the stored one was dropped; the one kept has an
\* external_id that is stored under the other source only
C28_Witness ==
    /\ dedup.pc = "returned"
    /\ ~dedup.warned
    /\ Len(dedup.listings) = 2
    /\ dedup.duplicatesSkipped = 1
    /\ IdentityStored(dedup.listings[1])
    /\ dedup.unique = <<dedup.listings[2]>>
    /\ dedup.listings[2].external_id # Null
    /\ \E row \in listingsDb : row.external_id = dedup.listings[2].external_id

\* C29: when the existence check fails, deduplicateListings does not throw:
\* it returns its argument unchanged with duplicatesSkipped = 0.
C29_DedupCheckFailureKeepsAll ==
    /\ [](dedup.warned =>
             /\ dedup.pc = "returned"
             /\ dedup.unique = dedup.listings
             /\ dedup.duplicatesSkipped = 0)
    /\ [][(dedup.pc = "query" /\ dedup' # dedup) =>
             /\ dedup'.pc = "returned"
             /\ faults' < faults => dedup'.warned]_vars

\* The check failed for candidates of which one is stored: it is returned
C29_Witness ==
    /\ dedup.warned
    /\ Len(dedup.listings) = 2
    /\ IdentityStored(dedup.listings[1])
    /\ dedup.unique = dedup.listings

\* ------------------------------------------ claims on the instruction block

\* The instruction block of invocation p: the rubric of its criteria and the
\* feedback exemplars, rendered
InstructionBlock(p) ==
    buildSystemPrompt(promptVersion[p], feedback.disagreements, feedback.agreements)

Fence == "fence"

\* The ways a response can wrap the JSON: bare, in a fenced block without
\* language tag, in a fenced block tagged json
Wrappings == {"none", "plain", "json"}

\* The text of a grading JSON: an object with a number score, a string grade
\* and a string rationale
JsonText(json) == <<"{", "quote">> \o json.rationale \o <<"quote", "}">>

Wrap(wrapping, text) ==
    IF wrapping = "plain" THEN <<Fence, "nl">> \o text \o <<"nl", Fence>>
    ELSE IF wrapping = "json" THEN <<Fence, "json", "nl">> \o text \o <<"nl", Fence>>
    ELSE text

\* String.prototype.trim
Trim(s) ==
    LET kept == {k \in 1..Len(s) : s[k] # "nl"}
    IN  IF kept = {} THEN <<>>
        ELSE SubSeq(s, CHOOSE a \in kept : \A k \in kept : a <= k,
                       CHOOSE b \in kept : \A k \in kept : b >= k)

\* raw.match(/```(?:json)?\s*([\s\S]*?)```/): the match starts at the first
\* fence, takes the tag and the white space after it, and its group runs up
\* to the next fence; without two fences there is no match
FenceMatch(raw) ==
    LET fences == {k \in 1..Len(raw) : raw[k] = Fence}
    IN  IF Cardinality(fences) < 2 THEN [found |-> FALSE, group |-> <<>>]
        ELSE LET a == CHOOSE k \in fences : \A f \in fences : k <= f
                 b == CHOOSE k \in fences \ {a} : \A f \in fences \ {a} : k <= f
                 afterTag == IF raw[a + 1] = "json" THEN a + 2 ELSE a + 1
                 start == CHOOSE k \in afterTag..b :
                             /\ raw[k] # "nl"
                             /\ \A m \in afterTag..(k - 1) : raw[m] = "nl"
             IN  [found |-> TRUE, group |-> SubSeq(raw, start, b - 1)]

\* jsonStr: the group of the match, trimmed, or the text itself
JsonStr(raw) ==
    LET fenceMatch == FenceMatch(raw)
    IN  IF fenceMatch.found THEN Trim(fenceMatch.group) ELSE raw

\* JSON.parse(jsonStr) returns: the text is an object whose rationale is a
\* string of characters without quote or line break
JsonParses(jsonStr) ==
    /\ Len(jsonStr) >= 4
    /\ jsonStr[1] = "{" /\ jsonStr[2] = "quote"
    /\ jsonStr[Len(jsonStr) - 1] = "quote" /\ jsonStr[Len(jsonStr)] = "}"
    /\ \A k \in 3..(Len(jsonStr) - 2) : jsonStr[k] \notin {"quote", "nl", "{", "}"}

\* What gradeListing makes of the text block of a response that holds the
\* grading JSON in the given wrapping: the output as JSON.parse sees it
TextOutput(wrapping, json) ==
    LET raw == Trim(Wrap(wrapping, JsonText(json)))
        jsonStr == JsonStr(raw)
    IN  IF JsonParses(jsonStr)
        THEN Out("text", wrapping, "object", "number", json.score, "string",
                 json.grade, "string", json.flagsT)
        ELSE Out("text", wrapping, "garbage", "missing", 0, "missing", "",
                 "missing", "missing")

\* gradeListing(listing, systemPrompt, false) settles for the response that
\* holds the JSON in wrapping w
GradeListingOnText(w) ==
    /\ parsing.on
    /\ ~parsing.result[w].called
    /\ parsing' = [parsing EXCEPT !.result[w] =
          [called |-> TRUE,
           value |-> gradeListing(TextOutput(w, parsing.json), FALSE)]]
    /\ UNCHANGED <<serverVars, cfgVars, promptVars, gu, dedup, pipeLocals, loopVars,
                   tallyVars, dbVars, pc, items, faults>>

\* The characters a rationale is made of: a letter, or the three backticks
RationaleChars == {"a", Fence}

\* The valid grading JSONs: every score and grade of a few, any rationale of
\* up to MaxRationale characters, flags given or not
GradingJsons ==
    [score : {0, 50, 104}, grade : {"A", "F"},
     rationale : UNION {[1..n -> RationaleChars] : n \in 0..MaxRationale},
     flagsT : {"array", "missing"}]

\* The model answers one listing with a valid grading JSON; gradeListing is
\* followed on that JSON in each wrapping
InitParse ==
    /\ isRunning = FALSE
    /\ currentRunId = Null
    /\ currentAbortController = Null
    /\ aborted = {}
    /\ stopAt = <<>>
    /\ surfaced = <<>>
    /\ batchSize = 1
    /\ concurrency = 1
    /\ market = [ebay |-> {}, craigslist |-> {}]
    /\ answers = BasicOutputs
    /\ feedback = NoFeedback
    /\ gu = <<>>
    /\ dedup = NoDedup
    /\ pc = <<>>
    /\ dryRun = <<>>
    /\ promptVersion = <<>>
    /\ runId = <<>>
    /\ allListings = <<>>
    /\ errMsg = <<>>
    /\ listings = <<>>
    /\ items = <<>>
    /\ i = <<>>
    /\ j = <<>>
    /\ chunk = <<>>
    /\ r = <<>>
    /\ graded = <<>>
    /\ failed = <<>>
    /\ totalScore = <<>>
    /\ stats = <<>>
    /\ systemPrompt = <<>>
    /\ calls = <<>>
    /\ runs = <<>>
    /\ events = <<>>
    /\ grades = {}
    /\ listingsDb = {}
    /\ faults = 0
    /\ \E json \in GradingJsons :
          parsing = [on |-> TRUE, json |-> json,
                     result |-> [w \in Wrappings |->
                                    [called |-> FALSE, value |-> Fail("")]]]

NextParse == \E w \in Wrappings : GradeListingOnText(w)

SpecParse == InitParse /\ [][NextParse]_vars

\* C31: For every valid grading JSON, gradeListing returns the same
\* GradeResult (or fails in the same way) whether the model output is the bare
\* JSON, the JSON in a fenced block without language tag, or the JSON in a
\* fenced block tagged json.
C31_FencedParsesAsBare ==
    parsing.on =>
       \A w1, w2 \in Wrappings :
          parsing.result[w1].called /\ parsing.result[w2].called
             => parsing.result[w1].value = parsing.result[w2].value

\* ------------------------------------------------ claims on the run slot

\* C32: At every moment at which a runPipeline invocation started by POST
\* /trigger is in progress, isRunning is true and currentAbortController is
\* the controller whose signal was handed to that invocation (so that a POST
\* /stop at that moment is answered 200 and aborts the signal of that run).
C32_RunOwnsTheSlot ==
    \A p \in Procs :
       RunInProgress(p) => isRunning /\ currentAbortController = p

\* C33: Whenever a triggered run ends, by normal completion or by a raised
\* fatal error, the run slot is released by that very step: isRunning is
\* false and currentAbortController null; and whenever isRunning is false the
\* server accepts the next POST /trigger (its body is awaited, 202 follows).
C33_SlotReleasedWhenRunEnds ==
    /\ [](~isRunning =>
            \A q \in Procs :
               (pc[q] = "idle" /\ \A o \in Procs : o < q => pc[o] # "idle")
                  => ENABLED (TriggerArrive(q) /\ pc'[q] = "body"))
    /\ [][\A p \in Procs :
            (RunInProgress(p) /\ pc'[p] \in {"done", "raised"})
               => (~isRunning' /\ currentAbortController' = Null)]_vars

\* A run has ended by a raised error, the slot is free and a request that has
\* not yet arrived is left to come
C33_Witness ==
    /\ pc[1] = "raised"
    /\ pc[2] = "idle"
    /\ ~isRunning
    /\ currentAbortController = Null

\* -------------------------------------------- claims on POST /grade-url runs

\* C34: Every run record created by POST /grade-url reaches a terminal status
\* (completed or failed): once the handler of the request that created it
\* has answered, nothing more is written, so the run is terminal by then,
\* also when the model call, the validation of the response or the insert of
\* the grade failed after the run was created.
C34_GradeUrlRunsTerminate ==
    \A q \in Requests :
       (gu[q].pc \in {"r200", "r500"} /\ gu[q].runId # Null)
          => runs[gu[q].runId].status \in {"completed", "failed"}

\* C35: While isRunning is true, currentRunId (what GET /health and the 409
\* response report) is null; currentRunId takes a new value only in the step
\* in which a runPipeline invocation returns, and that value is the id of its
\* run; and when an invocation raises, currentRunId is null.
C35_RunIdOnlyAfterSuccess ==
    /\ [](isRunning => currentRunId = Null)
    /\ [][(currentRunId' # currentRunId /\ currentRunId' # Null)
             => \E p \in Procs :
                   /\ RunInProgress(p)
                   /\ pc'[p] = "done"
                   /\ currentRunId' = runId[p]]_vars
    /\ [][\A p \in Procs :
            (RunInProgress(p) /\ pc'[p] = "raised") => currentRunId' = Null]_vars

\* ------------------------------------- claims on the rows of a grading call

\* The Grade rows the gradeInBatches invocation of p inserted
InsertedRows(p) == {g \in grades : g.run = runId[p]}

\* C36: When gradeInBatches has returned, the number of Grade rows it inserted
\* equals the returned `graded`; each inserted row belongs to an input listing,
\* no two rows to the same one, and carries the run's prompt_version; and no
\* Grade row was inserted for an item counted in `failed`.
C36_RowsMatchGraded ==
    \A p \in Procs :
       pc[p] = "grade_returned" =>
          /\ Cardinality(InsertedRows(p)) = stats[p].graded
          /\ \A g \in InsertedRows(p) :
                /\ \E x \in Positions(p) : g.listing_id = listings[p][x]
                /\ g.prompt_version = promptVersion[p]
                /\ \A h \in InsertedRows(p) : h.listing_id = g.listing_id => h = g
          /\ stats[p].failed = Cardinality(RejectedItems(p))
          /\ \A x \in RejectedItems(p) : GradeRowsOf(p, x) = {}

\* gradeInBatches has returned for three listings: two rows were inserted,
\* and the insert of the third failed
C36_Witness ==
    \E p \in Procs :
       /\ pc[p] = "grade_returned"
       /\ Len(listings[p]) = 3
       /\ stats[p].graded = 2
       /\ stats[p].failed = 1
       /\ Cardinality(InsertedRows(p)) = 2
       /\ \E x \in RejectedItems(p) : items[p][x].reason = "Failed to insert grade"

\* ------------------------------------------------ claims on dry-run grades

\* The rows of dry runs that grade the listing under the prompt version
DryRunRows(listing, version) ==
    {g \in grades : /\ g.model = "dry-run"
                    /\ g.listing_id = listing
                    /\ g.prompt_version = version}

\* C37: Grades synthesized in dry-run mode are persisted under the active
\* prompt_version with model 'dry-run': every item a dry run has completed
\* has such a row.  The ungraded selection of a run returns no listing that
\* has a dry-run row for the run's prompt_version at that moment, and the
\* Grader is called for selected listings only; so a non-dry run that follows
\* a dry run in which every item succeeded makes no Grader call for them.
C37_DryRunGradesPersist ==
    /\ [](\A p \in Procs :
            /\ dryRun[p] =>
                  \A x \in FulfilledItems(p) :
                     \E g \in DryRunRows(listings[p][x], promptVersion[p]) :
                        g.run = runId[p]
            /\ \A x \in Positions(p) : items[p][x].api => ~dryRun[p])
    /\ [][\A p \in Procs :
            (pc[p] \in {"select", "select_fallback"}
                /\ pc'[p] \in {"disagreements", "finalize_empty"})
               => \A k \in 1..Len(listings'[p]) :
                     DryRunRows(listings'[p][k], promptVersion[p]) = {}]_vars

\* A dry run has graded the listing of the market and returned; the run of
\* the next request, not dry, has selected nothing to grade
C37_Witness ==
    /\ pc[1] = "done"
    /\ pc[2] = "finalize_empty"
    /\ ~dryRun[2]
    /\ listingsDb # {}
    /\ \A l \in listingsDb :
          \E g \in DryRunRows(l.url, promptVersion[2]) : g.run = 1
    /\ \A g \in grades : g.model = "dry-run"

====
